---- MODULE Spec2Model ----
(***************************************************************************)
(* The version2 IQ Option client: the websocket manager, the message       *)
(* handler (router), and the caller-side operations of the account, market *)
(* and trade managers and of the IQOptionAlgoAPI facade.                   *)
(*                                                                         *)
(* Time is counted in whole seconds.  A poll loop of the code              *)
(* (read, time.sleep(0.1), read ...) is an action that may be taken at any *)
(* moment between two ticks of the clock.                                  *)
(***************************************************************************)
EXTENDS Integers, Sequences, FiniteSets, TLC

(* ------------------------------ bounds -------------------------------- *)

\* calls of the facade made in one run
MaxCalls == 2
\* sockets (WebSocketApp instances) created in one run
MaxConns == 2
\* the seconds that pass in one step of the clock
SecondsPerTick == 5

(* ------------------------- program constants -------------------------- *)

\* wait_for_oreder_confirmation(..., timeout=10)
OrderTimeout == 10
\* _send_position_query: timeout = 10
QueryTimeout == 10

(* ------------------------------ values -------------------------------- *)

Callers == {"A", "B"}

\* str(randint(0, 100000)): the request ids a placement may draw
RequestIds == {"77", "78"}
OrderIds == {999, 12345}
ErrorMessages == {"low balance"}
Assets == {"EURUSD-op", "EURUSD-OTC"}

\* Python values, tagged with their type
None == [t |-> "none"]
PyInt(n) == [t |-> "int", v |-> n]
PyStr(s) == [t |-> "str", v |-> s]
PyList(s) == [t |-> "list", v |-> s]
PyFloat(x) == [t |-> "float", v |-> x]
PyDict(d) == [t |-> "dict", v |-> d]
PyBool(b) == [t |-> "bool", v |-> b]
\* a returned pair (success, value)
Pair(ok, v) == [t |-> "tuple", ok |-> ok, v |-> v]
\* how a call ended
Returned(v) == [kind |-> "return", val |-> v]
Raised(e) == [kind |-> "raise", exc |-> e]
NoResult == [kind |-> "running"]

\* dict.get(key): None for a missing key
DictGet(d, k) == IF k \in DOMAIN d THEN d[k] ELSE None
\* d[key] = value
DictSet(d, k, v) == [x \in DOMAIN d \cup {k} |-> IF x = k THEN v ELSE d[x]]
EmptyDict == [x \in {} |-> None]

VARIABLES
    \* MessageHandler
    server_time, profile_msg, active_balance_id, balance_data, candles, _underlying_assests,
    hisory_positions, open_positions, position_info,
    \* WebSocketManager
    websocket, ws_is_active,
    \* IQOptionAlgoAPI
    _connected, ssid,
    \* AccountManager
    current_account_id, current_account_type,
    \* the network: the state of every socket created, the frames sent, and the
    \* sent frames the server has answered
    conns, wire, answered,
    \* the calling threads: position, operation, argument, wire index of the
    \* request, seconds waited, the seconds its timed wait may last, and how
    \* the last call ended
    pc, op, arg, req, elapsed, timeout, result,
    \* the thread that runs _connect / _logout
    pcMain,
    \* the calls of the facade made so far
    calls,
    \* history: the inbound frame _on_message handled last
    inbound,
    \* for each socket, the frame its thread (run_forever) is handling inside
    \* _on_message, None between two frames; it is used where a frame is
    \* delivered and handled in two steps
    routing,
    \* a logical envelope on its way through json.dumps and json.loads
    codec,
    \* history: how far the current connection attempt has come
    stage,
    \* history: for each thread, the first frame matching the correlation key of
    \* its current call that was routed while the call was waiting in time
    first

handlerVars == <<server_time, profile_msg, active_balance_id, balance_data, candles, _underlying_assests,
                 hisory_positions, open_positions, position_info>>
wsVars == <<websocket, ws_is_active>>
accountVars == <<current_account_id, current_account_type>>
callerVars == <<pc, op, arg, req, elapsed, timeout, result>>
vars == <<server_time, profile_msg, active_balance_id, balance_data, candles, _underlying_assests,
          hisory_positions, open_positions, position_info, websocket, ws_is_active,
          _connected, ssid, current_account_id, current_account_type,
          conns, wire, answered, pc, op, arg, req, elapsed, timeout, result, pcMain,
          calls, inbound, routing, codec, stage, first>>

(* --------------------------- MessageHandler --------------------------- *)

\* the attributes of the handler that a handler method leaves alone
Keep(names) ==
    /\ IF "server_time" \in names THEN UNCHANGED server_time ELSE TRUE
    /\ IF "profile_msg" \in names THEN UNCHANGED profile_msg ELSE TRUE
    /\ IF "active_balance_id" \in names THEN UNCHANGED active_balance_id ELSE TRUE
    /\ IF "balance_data" \in names THEN UNCHANGED balance_data ELSE TRUE
    /\ IF "candles" \in names THEN UNCHANGED candles ELSE TRUE
    /\ IF "_underlying_assests" \in names THEN UNCHANGED _underlying_assests ELSE TRUE
    /\ IF "hisory_positions" \in names THEN UNCHANGED hisory_positions ELSE TRUE
    /\ IF "open_positions" \in names THEN UNCHANGED open_positions ELSE TRUE
    /\ IF "position_info" \in names THEN UNCHANGED position_info ELSE TRUE

Attributes == {"server_time", "profile_msg", "active_balance_id", "balance_data",
               "candles", "_underlying_assests", "hisory_positions",
               "open_positions", "position_info"}

_handle_server_time(message) ==
    /\ server_time' = message.msg
    /\ Keep(Attributes \ {"server_time"})

\* the id of the first balance of type 4 (demo), 0 when there is none
FirstOfType(balances, type) ==
    LET at == {i \in 1..Len(balances) : balances[i].type = type}
    IN  IF at = {} THEN 0
        ELSE balances[CHOOSE i \in at : \A j \in at : i <= j].id

\* the frame is stored before message['msg']['balances'] is read
_handle_profile(message) ==
    /\ profile_msg' = message
    /\ active_balance_id' =
           IF "balances" \in DOMAIN message.msg /\ FirstOfType(message.msg.balances, 4) # 0
           THEN FirstOfType(message.msg.balances, 4)
           ELSE active_balance_id
    /\ Keep(Attributes \ {"profile_msg", "active_balance_id"})

_handle_balances(message) ==
    /\ balance_data' = message.msg
    /\ Keep(Attributes \ {"balance_data"})

\* logs only
_handle_training_balance_reset(message) ==
    Keep(Attributes)

_handle_initialization_data(message) ==
    /\ _underlying_assests' = message.msg
    /\ Keep(Attributes \ {"_underlying_assests"})

\* mutant: a batch of candles is added to the batch the handler holds
_handle_candles_merge(message) ==
    /\ candles' = IF candles = None THEN message.msg.candles
                  ELSE PyList(candles.v \o message.msg.candles.v)
    /\ Keep(Attributes \ {"candles"})

_handle_candles(message) ==
    /\ candles' = IF "candles" \in DOMAIN message.msg THEN message.msg.candles ELSE candles
    /\ Keep(Attributes \ {"candles"})

_handle_underlying_list(message) ==
    /\ _underlying_assests' =
           IF message.msg.type = "digital-option"
           THEN message.msg.underlying
           ELSE message.msg.items
    /\ Keep(Attributes \ {"_underlying_assests"})

_handle_position_history(message) ==
    /\ hisory_positions' = message.msg.positions
    /\ Keep(Attributes \ {"hisory_positions"})

\* mutant: the error-message field is stored whether or not there is an order id
PlacedOutcome_message_only(message) ==
    message.msg.message

\* the value _handle_digital_option_placed stores for a confirmation
PlacedOutcome(message) ==
    IF message.msg.id # None THEN message.msg.id ELSE message.msg.message

\* mutant: the outcome is stored under one fixed key, not under the frame's request id
_handle_digital_option_placed_fixed_key(message) ==
    /\ open_positions' =
           [open_positions EXCEPT !.digital_options = DictSet(@, "77", PlacedOutcome(message))]
    /\ Keep(Attributes \ {"open_positions"})

_handle_digital_option_placed(message) ==
    /\ open_positions' =
           [open_positions EXCEPT !.digital_options =
               DictSet(@, message.request_id, PlacedOutcome(message))]
    /\ Keep(Attributes \ {"open_positions"})

\* mutant: the payload is stored under every order id of the frame
_handle_position_changed_every_id(message) ==
    /\ position_info' =
           LET order_ids == message.msg.raw_event.order_ids
               keys == {order_ids[i] : i \in DOMAIN order_ids}
           IN  [x \in DOMAIN position_info \cup keys |->
                   IF x \in keys THEN message.msg ELSE position_info[x]]
    /\ Keep(Attributes \ {"position_info"})

_handle_position_changed(message) ==
    /\ position_info' =
           IF message.msg.raw_event.order_ids # <<>>
           THEN DictSet(position_info, message.msg.raw_event.order_ids[1], message.msg)
           ELSE position_info
    /\ Keep(Attributes \ {"position_info"})

\* message.get('name') is not None: the frame has a name
Named(message) == "name" \in DOMAIN message

\* handlers.get(message_name) of a frame without a name, or with a name that
\* is not a key of `handlers`, is None and nothing is called
handle_message(message) ==
    CASE ~Named(message) -> Keep(Attributes)
      [] message.name = "profile" -> _handle_profile(message)
      [] message.name = "candles" -> _handle_candles(message)
      [] message.name = "balances" -> _handle_balances(message)
      [] message.name = "timeSync" -> _handle_server_time(message)
      [] message.name = "underlying-list" -> _handle_underlying_list(message)
      [] message.name = "initialization-data" -> _handle_initialization_data(message)
      [] message.name = "training-balance-reset" -> _handle_training_balance_reset(message)
      [] message.name = "history-positions" -> _handle_position_history(message)
      [] message.name = "digital-option-placed" -> _handle_digital_option_placed(message)
      [] message.name = "position-changed" -> _handle_position_changed(message)
      [] OTHER -> Keep(Attributes)

(* -------------------------- WebSocketManager -------------------------- *)

\* a raw inbound frame: JSON text that parses to `body`, or text that does not parse
Json(body) == [json |-> TRUE, body |-> body]
Garbage == [json |-> FALSE]

\* mutant: the handler is looked up with handlers[message['name']], which
\* raises KeyError for a frame that has no handler
Raises_unrouted(message) ==
    CASE ~Named(message) -> TRUE
      [] message.name = "profile" -> "balances" \notin DOMAIN message.msg
      [] message.name = "candles" -> "candles" \notin DOMAIN message.msg
      [] message.name = "position-changed" -> message.msg.raw_event.order_ids = <<>>
      [] message.name = "training-balance-reset" ->
             \/ "status" \notin DOMAIN message
             \/ message.status = 4001 /\ "message" \notin DOMAIN message.msg
      [] OTHER -> message.name \notin {"balances", "timeSync", "underlying-list",
                                       "initialization-data", "history-positions",
                                       "digital-option-placed"}

\* the handler of the frame raises: KeyError for a key that is read and is not
\* there, IndexError for order_ids[0] of an empty list
Raises(message) ==
    CASE ~Named(message) -> FALSE
      [] message.name = "profile" -> "balances" \notin DOMAIN message.msg
      [] message.name = "candles" -> "candles" \notin DOMAIN message.msg
      [] message.name = "position-changed" -> message.msg.raw_event.order_ids = <<>>
      [] message.name = "training-balance-reset" ->
             \/ "status" \notin DOMAIN message
             \/ message.status = 4001 /\ "message" \notin DOMAIN message.msg
      [] OTHER -> FALSE

\* mutant: the connection is marked active before the frame is parsed
_on_message_flag_first(message) ==
    /\ ws_is_active' = TRUE
    /\ IF message.json THEN handle_message(message.body) ELSE Keep(Attributes)

\* mutant: a frame that does not parse clears the server time
_on_message_drop_resets(message) ==
    IF message.json
    THEN /\ handle_message(message.body)
         /\ ws_is_active' = IF Raises(message.body) THEN ws_is_active ELSE TRUE
    ELSE /\ server_time' = None
         /\ Keep(Attributes \ {"server_time"})
         /\ UNCHANGED ws_is_active

\* _on_message: parse, route, and only then mark the connection active;
\* a JSONDecodeError is printed and the frame dropped; an exception of the
\* handler is not caught and skips the assignment of the flag
_on_message(message) ==
    IF message.json
    THEN /\ handle_message(message.body)
         /\ ws_is_active' = IF Raises(message.body) THEN ws_is_active ELSE TRUE
    ELSE /\ Keep(Attributes)
         /\ UNCHANGED ws_is_active

\* what is remembered of a frame _on_message has handled: the frame, and
\* whether an exception left _on_message
Handled(message) ==
    [json |-> message.json,
     body |-> IF message.json THEN message.body ELSE None,
     raised |-> message.json /\ Raises(message.body)]

\* mutant: every send is taken to succeed
CanSend_always == TRUE

\* websocket.send succeeds only on a socket that is open
CanSend == websocket # 0 /\ conns[websocket] = "open"

\* json.dumps(dict(name=name, msg=msg, request_id=request_id)) on the current socket
Envelope(name, msg, request_id) ==
    [conn |-> websocket, name |-> name, msg |-> msg, request_id |-> request_id]

\* int(str(time.time()).split('.')[1]): the request ids send_message makes up;
\* the actions that send take the ids the clock may give as `ids`
ClockFractions == {123456, 123457}

\* if request_id == '': request_id = int(str(time.time()).split('.')[1])
RequestId(request_id, fraction) ==
    IF request_id = "" THEN fraction ELSE request_id

\* mutant: the frame is sent twice
send_message_twice(name, msg, request_id, fraction) ==
    [frames |-> <<Envelope(name, msg, RequestId(request_id, fraction)),
                  Envelope(name, msg, RequestId(request_id, fraction))>>,
     returns |-> RequestId(request_id, fraction)]

\* send_message on a socket that is open: the frames it puts on the wire and
\* the value it returns; `fraction` is what the clock gives when it is read
send_message(name, msg, request_id, fraction) ==
    [frames |-> <<Envelope(name, msg, RequestId(request_id, fraction))>>,
     returns |-> RequestId(request_id, fraction)]

(* ------------------------------ callers -------------------------------- *)

\* thread c has sent its request and starts to wait at position p
Sent(c, p, frames) ==
    /\ wire' = wire \o frames
    /\ pc' = [pc EXCEPT ![c] = p]
    /\ req' = [req EXCEPT ![c] = Len(wire) + 1]
    /\ UNCHANGED <<op, arg, elapsed, timeout, result, first>>

\* websocket.send on a socket that is not open
SendError == Raised("WebSocketConnectionClosedException")

\* thread c moves to position p of operation o
Goto(c, p, o, a, r) ==
    /\ pc' = [pc EXCEPT ![c] = p]
    /\ op' = [op EXCEPT ![c] = o]
    /\ arg' = [arg EXCEPT ![c] = a]
    /\ req' = [req EXCEPT ![c] = r]
    /\ elapsed' = [elapsed EXCEPT ![c] = 0]
    /\ result' = [result EXCEPT ![c] = NoResult]
    /\ first' = [first EXCEPT ![c] = None]
    /\ UNCHANGED timeout

\* thread c goes on to position p of the operation it is in
Step(c, p) ==
    /\ pc' = [pc EXCEPT ![c] = p]
    /\ UNCHANGED <<op, arg, req, elapsed, timeout, result, first>>

\* operation o of thread c ends with outcome v
Finish(c, o, a, v) ==
    /\ pc' = [pc EXCEPT ![c] = "idle"]
    /\ op' = [op EXCEPT ![c] = o]
    /\ arg' = [arg EXCEPT ![c] = a]
    /\ result' = [result EXCEPT ![c] = v]
    /\ UNCHANGED <<req, elapsed, timeout, first>>

\* operation o of thread c ends with outcome v before it has sent anything
Refuse(c, o, a, v) ==
    /\ pc' = [pc EXCEPT ![c] = "idle"]
    /\ op' = [op EXCEPT ![c] = o]
    /\ arg' = [arg EXCEPT ![c] = a]
    /\ req' = [req EXCEPT ![c] = 0]
    /\ result' = [result EXCEPT ![c] = v]
    /\ first' = [first EXCEPT ![c] = None]
    /\ UNCHANGED <<elapsed, timeout>>

\* mutant: the facade lets every call through
_ensure_connected_always == TRUE

\* IQOptionAlgoAPI._ensure_connected passes
_ensure_connected == _connected

NotConnected == Raised("Exception: Bot is not connected")

(* ---------------------------- TradeManager ----------------------------- *)

\* the assets of options_assests.UNDERLYING_ASSESTS
UNDERLYING_ASSESTS == Assets

Lower(direction) ==
    CASE direction = "CALL" -> "call"
      [] direction = "PUT" -> "put"
      [] OTHER -> direction

\* mutant: the amount is not validated
_validate_options_trading_parameters_any_amount(asset, amount, direction, expiry) ==
    /\ asset # ""
    /\ direction \in {"put", "call"}
    /\ expiry >= 1
    /\ current_account_id # 0

\* _validate_options_trading_parameters raises nothing
\* (direction arrives lower-cased)
_validate_options_trading_parameters(asset, amount, direction, expiry) ==
    /\ asset # ""
    /\ amount >= 1
    /\ direction \in {"put", "call"}
    /\ expiry >= 1
    /\ current_account_id # 0

\* _build_options_body raises nothing: the asset is known and the server time is set
CanBuildBody(asset) ==
    /\ asset \in UNDERLYING_ASSESTS
    /\ server_time # None

\* direction_map = {'put': 'P', 'call': 'C'}
direction_map(direction) == IF direction = "put" THEN "P" ELSE "C"

\* _build_options_body: the amount as str(amount); of the instrument id, the
\* expiry and the direction it is built from
PlaceBody(asset, amount, expiry, direction) ==
    [name |-> "digital-options.place-digital-option",
     body |-> [user_balance_id |-> current_account_id, asset |-> asset,
               amount |-> ToString(amount),
               instrument_id |-> [expiry |-> expiry, direction |-> direction]]]

\* _execute_digital_option_trade up to the start of the confirmation wait: it
\* validates, builds and sends; every exception of these steps is caught and
\* logged, and the method returns None
_execute_digital_option_trade(c, asset, amount, direction, expiry, request_id) ==
    IF /\ _validate_options_trading_parameters(asset, amount, Lower(direction), expiry)
       /\ CanBuildBody(asset)
       /\ CanSend
    THEN /\ wire' = wire \o send_message("sendMessage",
                                         PlaceBody(asset, amount, expiry,
                                                   direction_map(Lower(direction))),
                                         request_id, 0).frames
         /\ Goto(c, "order_wait", "trade", request_id, Len(wire) + 1)
    ELSE /\ Refuse(c, "trade", request_id, Returned(None))
         /\ UNCHANGED wire

\* execute_digital_option_trade of the facade: _ensure_connected, then
\* _execute_digital_option_trade
execute_digital_option_trade(c, asset, amount, direction, expiry, request_id) ==
    /\ pc[c] = "idle"
    /\ calls < MaxCalls
    /\ calls' = calls + 1
    /\ IF ~_ensure_connected
       THEN /\ Refuse(c, "trade", request_id, NotConnected)
            /\ UNCHANGED wire
       ELSE _execute_digital_option_trade(c, asset, amount, direction, expiry, request_id)
    /\ UNCHANGED <<handlerVars, wsVars, _connected, ssid, accountVars, conns, answered,
                   pcMain, inbound, routing, codec, stage>>

\* a thread calls _execute_digital_option_trade of the TradeManager itself
place_digital_option(c, asset, amount, direction, expiry, request_id) ==
    /\ pc[c] = "idle"
    /\ calls < MaxCalls
    /\ calls' = calls + 1
    /\ _execute_digital_option_trade(c, asset, amount, direction, expiry, request_id)
    /\ UNCHANGED <<handlerVars, wsVars, _connected, ssid, accountVars, conns, answered,
                   pcMain, inbound, routing, codec, stage>>

\* mutant: a wait that runs into its timeout returns a rejection
OrderPoll_timeout_as_rejection(r, waited) ==
    IF waited < OrderTimeout
    THEN IF r # None
         THEN IF r.t = "int"
              THEN Returned(Pair(TRUE, r))
              ELSE Returned(Pair(FALSE, r))
         ELSE NoResult
    ELSE Returned(Pair(FALSE, PyStr("low balance")))

\* what one pass of the polling loop of wait_for_oreder_confirmation does with the
\* entry `r` of the open-position map after `waited` seconds: NoResult for
\* "sleep and poll again"
OrderPoll(r, waited) ==
    IF waited < OrderTimeout
    THEN IF r # None
         THEN IF r.t = "int"
              THEN Returned(Pair(TRUE, r))
              ELSE Returned(Pair(FALSE, r))
         ELSE NoResult
    ELSE Returned(None)

\* mutant: the wait takes the entry out of the map when it returns
wait_for_oreder_confirmation_pop(c) ==
    /\ pc[c] = "order_wait"
    /\ LET r == OrderPoll(DictGet(open_positions.digital_options, arg[c]), elapsed[c])
       IN  IF r = NoResult
           THEN UNCHANGED <<callerVars, first, handlerVars>>
           ELSE /\ Finish(c, "trade", arg[c], r)
                /\ open_positions' =
                       [open_positions EXCEPT !.digital_options =
                           [x \in DOMAIN @ \ {arg[c]} |-> @[x]]]
                /\ Keep(Attributes \ {"open_positions"})
    /\ UNCHANGED <<wsVars, _connected, ssid, accountVars, conns, wire,
                   answered, pcMain, calls, inbound, routing, codec, stage>>

wait_for_oreder_confirmation(c) ==
    /\ pc[c] = "order_wait"
    /\ LET r == OrderPoll(DictGet(open_positions.digital_options, arg[c]), elapsed[c])
       IN  IF r = NoResult
           THEN UNCHANGED <<callerVars, first>>
           ELSE Finish(c, "trade", arg[c], r)
    /\ UNCHANGED <<handlerVars, wsVars, _connected, ssid, accountVars, conns, wire,
                   answered, pcMain, calls, inbound, routing, codec, stage>>

(* ---------------------------- MarketManager ---------------------------- *)

\* the request of get_candle_history, with its default count and timeframe
CandlesBody(asset) ==
    [name |-> "get-candles",
     body |-> [active_id |-> asset, size |-> 60, count |-> 50, to |-> server_time,
               only_closed |-> TRUE, split_normalization |-> TRUE]]

\* get_candle_history, first statement: the projection is reset
get_candle_history(c, asset_name) ==
    /\ pc[c] = "idle"
    /\ calls < MaxCalls
    /\ calls' = calls + 1
    /\ IF ~_ensure_connected
       THEN /\ Refuse(c, "get_candle_history", asset_name, NotConnected)
            /\ UNCHANGED handlerVars
       ELSE /\ candles' = None
            /\ Keep(Attributes \ {"candles"})
            /\ Goto(c, "candles_send", "get_candle_history", asset_name, 0)
    /\ UNCHANGED <<wsVars, _connected, ssid, accountVars, conns, wire, answered,
                   pcMain, inbound, routing, codec, stage>>

\* get_candle_history: get_asset_id may raise KeyError, then the request is sent
candles_send(c, ids) ==
    /\ pc[c] = "candles_send"
    /\ IF arg[c] \notin UNDERLYING_ASSESTS
       THEN Finish(c, op[c], arg[c], Raised("KeyError")) /\ UNCHANGED wire
       ELSE IF ~CanSend
            THEN Finish(c, op[c], arg[c], SendError) /\ UNCHANGED wire
            ELSE \E id \in ids :
                     Sent(c, "candles_wait", send_message("sendMessage", CandlesBody(arg[c]), "", id).frames)
    /\ UNCHANGED <<handlerVars, wsVars, _connected, ssid, accountVars, conns, answered,
                   pcMain, calls, inbound, routing, codec, stage>>

\* get_candle_history: while self.message_handler.candles is None: time.sleep(0.1)
candles_wait(c) ==
    /\ pc[c] = "candles_wait"
    /\ IF candles # None
       THEN Finish(c, op[c], arg[c], Returned(candles))
       ELSE UNCHANGED <<callerVars, first>>
    /\ UNCHANGED <<handlerVars, wsVars, _connected, ssid, accountVars, conns, wire,
                   answered, pcMain, calls, inbound, routing, codec, stage>>

\* the instrument types whose request name is built from the type
MarginalTypes == {"forex", "cfd", "crypto"}

InstrumentTypes == MarginalTypes \cup {"digital-option", "binary-option"}

\* f'marginal-{instrument_type}-instruments.get-underlying-list'
MarginalName(instrument_type) ==
    "marginal-" \o instrument_type \o "-instruments.get-underlying-list"

\* _build_msg_body
UnderlyingBody(instrument_type) ==
    CASE instrument_type = "digital-option" ->
             [name |-> "digital-option-instruments.get-underlying-list",
              body |-> [filter_suspended |-> TRUE]]
      [] instrument_type = "binary-option" ->
             [name |-> "get-initialization-data", body |-> EmptyDict]
      [] OTHER ->
             [name |-> MarginalName(instrument_type), body |-> EmptyDict]

\* get_underlying_assests up to the reset: an unsupported type raises ValueError
get_underlying_assests(c, instrument_type) ==
    /\ pc[c] = "idle"
    /\ calls < MaxCalls
    /\ calls' = calls + 1
    /\ IF instrument_type \notin InstrumentTypes
       THEN /\ Refuse(c, "get_underlying_assests", instrument_type, Raised("ValueError"))
            /\ UNCHANGED handlerVars
       ELSE /\ _underlying_assests' = None
            /\ Keep(Attributes \ {"_underlying_assests"})
            /\ Goto(c, "underlying_send", "get_underlying_assests", instrument_type, 0)
    /\ UNCHANGED <<wsVars, _connected, ssid, accountVars, conns, wire, answered,
                   pcMain, inbound, routing, codec, stage>>

underlying_send(c, ids) ==
    /\ pc[c] = "underlying_send"
    /\ IF ~CanSend
       THEN Finish(c, op[c], arg[c], SendError) /\ UNCHANGED wire
       ELSE \E id \in ids :
                Sent(c, "underlying_wait", send_message("sendMessage", UnderlyingBody(arg[c]), "", id).frames)
    /\ UNCHANGED <<handlerVars, wsVars, _connected, ssid, accountVars, conns, answered,
                   pcMain, calls, inbound, routing, codec, stage>>

\* while self.message_handler._underlying_assests == None: time.sleep(.1)
underlying_wait(c) ==
    /\ pc[c] = "underlying_wait"
    /\ IF _underlying_assests # None
       THEN Finish(c, op[c], arg[c], Returned(_underlying_assests))
       ELSE UNCHANGED <<callerVars, first>>
    /\ UNCHANGED <<handlerVars, wsVars, _connected, ssid, accountVars, conns, wire,
                   answered, pcMain, calls, inbound, routing, codec, stage>>

(* ---------------------------- AccountManager --------------------------- *)

BalancesBody ==
    [name |-> "internal-billing.get-balances",
     body |-> [types_ids |-> <<1, 4, 2, 6>>, tournaments_statuses_ids |-> <<3, 2>>]]

\* get_current_account_balance -> get_account_balances, first statement:
\* the projection is reset
get_current_account_balance(c) ==
    /\ pc[c] = "idle"
    /\ calls < MaxCalls
    /\ calls' = calls + 1
    /\ IF ~_ensure_connected
       THEN /\ Refuse(c, "get_current_account_balance", "", NotConnected)
            /\ UNCHANGED handlerVars
       ELSE /\ balance_data' = None
            /\ Keep(Attributes \ {"balance_data"})
            /\ Goto(c, "balances_send", "get_current_account_balance", "", 0)
    /\ UNCHANGED <<wsVars, _connected, ssid, accountVars, conns, wire, answered,
                   pcMain, inbound, routing, codec, stage>>

\* get_account_balances: the request is sent
balances_send(c, ids) ==
    /\ pc[c] = "balances_send"
    /\ IF ~CanSend
       THEN Finish(c, op[c], arg[c], SendError) /\ UNCHANGED wire
       ELSE \E id \in ids :
                Sent(c, "balances_wait", send_message("sendMessage", BalancesBody, "", id).frames)
    /\ UNCHANGED <<handlerVars, wsVars, _connected, ssid, accountVars, conns, answered,
                   pcMain, calls, inbound, routing, codec, stage>>

\* get_account_balances: while self.message_handler.balance_data is None: time.sleep(0.1),
\* and the return to the operation that called it
balances_wait(c) ==
    /\ pc[c] = "balances_wait"
    /\ IF balance_data = None
       THEN UNCHANGED <<callerVars, first>>
       ELSE CASE op[c] = "get_tournament_accounts" -> Step(c, "tournament_wait")
              [] op[c] = "switch_account" -> Step(c, "switch_subscription")
              [] op[c] = "switch_account/get_active_account_balance" ->
                     Finish(c, "switch_account", arg[c], Returned(PyBool(TRUE)))
              [] OTHER -> Finish(c, op[c], arg[c], Returned(balance_data))
    /\ UNCHANGED <<handlerVars, wsVars, _connected, ssid, accountVars, conns, wire,
                   answered, pcMain, calls, inbound, routing, codec, stage>>

\* the query of get_position_history_by_page (limit=300, offset=0) and of
\* get_position_history_by_time (no start_time, no end_time: the last 24 hours)
HistoryBody(o, instrument_type) ==
    [name |-> "portfolio.get-history-positions",
     body |-> IF o = "get_position_history_by_page"
              THEN [instrument_types |-> instrument_type, limit |-> 300, offset |-> 0,
                    user_balance_id |-> current_account_id]
              ELSE [instrument_types |-> instrument_type, start |-> "now - 24 h",
                    end |-> "now", user_balance_id |-> current_account_id]]

\* get_position_history_by_page -> _send_position_query, first statement:
\* the projection is reset
get_position_history_by_page(c, instrument_type) ==
    /\ pc[c] = "idle"
    /\ calls < MaxCalls
    /\ calls' = calls + 1
    /\ IF ~_ensure_connected
       THEN /\ Refuse(c, "get_position_history_by_page", instrument_type, NotConnected)
            /\ UNCHANGED handlerVars
       ELSE /\ hisory_positions' = None
            /\ Keep(Attributes \ {"hisory_positions"})
            /\ Goto(c, "history_send", "get_position_history_by_page", instrument_type, 0)
    /\ UNCHANGED <<wsVars, _connected, ssid, accountVars, conns, wire, answered,
                   pcMain, inbound, routing, codec, stage>>

\* _send_position_query: the request is sent and the clock read
history_send(c, ids) ==
    /\ pc[c] = "history_send"
    /\ IF ~CanSend
       THEN Finish(c, op[c], arg[c], SendError) /\ UNCHANGED wire
       ELSE \E id \in ids :
                Sent(c, "history_wait", send_message("sendMessage", HistoryBody(op[c], arg[c]), "", id).frames)
    /\ UNCHANGED <<handlerVars, wsVars, _connected, ssid, accountVars, conns, answered,
                   pcMain, calls, inbound, routing, codec, stage>>

\* what one pass of the waiting loop of _send_position_query does with the
\* projection `h` after `waited` seconds: NoResult for "sleep and look again"
HistoryPoll(h, waited) ==
    IF h # None
    THEN Returned(h)
    ELSE IF waited > QueryTimeout
         THEN Raised("TimeoutError")
         ELSE NoResult

history_wait(c) ==
    /\ pc[c] = "history_wait"
    /\ LET r == HistoryPoll(hisory_positions, elapsed[c])
       IN  IF r = NoResult
           THEN UNCHANGED <<callerVars, first>>
           ELSE Finish(c, op[c], arg[c], r)
    /\ UNCHANGED <<handlerVars, wsVars, _connected, ssid, accountVars, conns, wire,
                   answered, pcMain, calls, inbound, routing, codec, stage>>

(* ------------------------------- time ---------------------------------- *)

\* the loops that look at the clock, and the longest wait each can see
TimedWaits == {"order_wait", "history_wait", "outcome_wait"}
Limit(c) ==
    CASE pc[c] = "order_wait" -> OrderTimeout
      [] pc[c] = "history_wait" -> QueryTimeout + 1
      [] OTHER -> timeout[c]

\* one second passes
Tick ==
    /\ \E c \in Callers : pc[c] \in TimedWaits /\ elapsed[c] < Limit(c)
    /\ elapsed' = [c \in Callers |->
                      IF pc[c] \in TimedWaits /\ elapsed[c] < Limit(c)
                      THEN elapsed[c] + SecondsPerTick ELSE elapsed[c]]
    /\ UNCHANGED <<handlerVars, wsVars, _connected, ssid, accountVars, conns, wire,
                   answered, pc, op, arg, req, timeout, result, pcMain, calls, inbound, routing, codec, stage, first>>

(* ------------------------------ server --------------------------------- *)

\* a demo and a real account
Balances == <<[id |-> 11, type |-> 4], [id |-> 12, type |-> 1]>>
ProfileFrame == [name |-> "profile", msg |-> [balances |-> Balances]]
\* timeSync payloads (milliseconds since the epoch)
Times == {PyInt(29000)}

\* how far the connection attempt has come once socket k has delivered a frame
\* named `name`: only frames of the socket the attempt created count
StageAfter(k, name) ==
    IF k # websocket THEN stage
    ELSE IF stage = "SocketConnecting" THEN "SocketActive"
    ELSE IF stage = "AuthSent" /\ name = "profile" THEN "ProfileReceived"
    ELSE stage

\* the sent frames the server may still answer
Unanswered(name) ==
    {i \in 1..Len(wire) : /\ i \notin answered
                          /\ wire[i].name = "sendMessage"
                          /\ wire[i].msg.name = name
                          /\ conns[wire[i].conn] = "open"}

\* the msg of a 'digital-option-placed' confirmation: an order id, an error message,
\* or neither
PlacedMsgs ==
    {[id |-> PyInt(o), message |-> None] : o \in OrderIds}
    \cup {[id |-> None, message |-> PyStr(m)] : m \in ErrorMessages}
    \cup {[id |-> None, message |-> None]}

PlacedFrame(i, m) ==
    [name |-> "digital-option-placed", request_id |-> wire[i].request_id, msg |-> m]

\* the server confirms or rejects the placement sent as frame i
ServerPlaced(i, m) ==
    /\ i \in Unanswered("digital-options.place-digital-option")
    /\ _on_message(Json(PlacedFrame(i, m)))
    /\ answered' = answered \cup {i}
    /\ inbound' = Handled(Json(PlacedFrame(i, m)))
    /\ UNCHANGED <<routing, codec>>
    /\ first' = [c \in Callers |->
                    IF /\ pc[c] = "order_wait"
                       /\ arg[c] = wire[i].request_id
                       /\ elapsed[c] < OrderTimeout
                       /\ first[c] = None
                    THEN PlacedFrame(i, m) ELSE first[c]]
    /\ stage' = StageAfter(wire[i].conn, "digital-option-placed")
    /\ UNCHANGED <<websocket, _connected, ssid, accountVars, conns, wire, callerVars,
                   pcMain, calls>>

\* what the server answers to the request sent as frame i: the payload names
\* the request it answers
Reply(i) ==
    LET m == wire[i].msg
        data == [of |-> i, for |-> m.body]
    IN  CASE m.name = "get-candles" ->
                 [name |-> "candles", request_id |-> wire[i].request_id,
                  msg |-> [candles |-> data]]
          [] m.name = "internal-billing.get-balances" ->
                 [name |-> "balances", request_id |-> wire[i].request_id, msg |-> data]
          [] m.name = "portfolio.get-history-positions" ->
                 [name |-> "history-positions", request_id |-> wire[i].request_id,
                  msg |-> [positions |-> data]]
          [] m.name = "digital-option-instruments.get-underlying-list" ->
                 [name |-> "underlying-list", request_id |-> wire[i].request_id,
                  msg |-> [type |-> "digital-option", underlying |-> data]]
          [] m.name \in {MarginalName(t) : t \in MarginalTypes} ->
                 [name |-> "underlying-list", request_id |-> wire[i].request_id,
                  msg |-> [type |-> CHOOSE t \in MarginalTypes : m.name = MarginalName(t),
                           items |-> data]]
          [] m.name = "get-initialization-data" ->
                 [name |-> "initialization-data", request_id |-> wire[i].request_id,
                  msg |-> data]

QueryNames == {"get-candles", "internal-billing.get-balances",
               "portfolio.get-history-positions",
               "digital-option-instruments.get-underlying-list",
               "get-initialization-data"}
              \cup {MarginalName(t) : t \in MarginalTypes}

\* the position in which a thread waits for the frame named n
WaitsFor(n) ==
    CASE n = "candles" -> "candles_wait"
      [] n = "balances" -> "balances_wait"
      [] n = "history-positions" -> "history_wait"
      [] OTHER -> "underlying_wait"

\* the server answers the query sent as frame i
ServerReply(i) ==
    /\ \E n \in QueryNames : i \in Unanswered(n)
    /\ _on_message(Json(Reply(i)))
    /\ answered' = answered \cup {i}
    /\ inbound' = Handled(Json(Reply(i)))
    /\ UNCHANGED <<routing, codec>>
    /\ first' = [c \in Callers |->
                    IF pc[c] = WaitsFor(Reply(i).name) /\ first[c] = None
                    THEN Reply(i) ELSE first[c]]
    /\ stage' = StageAfter(wire[i].conn, Reply(i).name)
    /\ UNCHANGED <<websocket, _connected, ssid, accountVars, conns, wire, callerVars,
                   pcMain, calls>>

\* timeSync: the server's clock, pushed on a socket that is open
TimeSyncFrame(t) == [name |-> "timeSync", msg |-> t]

\* the handshake of socket k is completed (_on_open does nothing)
ServerOpen(k) ==
    /\ k \in 1..Len(conns)
    /\ conns[k] = "connecting"
    /\ conns' = [conns EXCEPT ![k] = "open"]
    /\ UNCHANGED <<handlerVars, wsVars, _connected, ssid, accountVars, wire, answered,
                   callerVars, pcMain, calls, inbound, routing, codec, stage, first>>

\* _on_close: socket k has been closed by the peer; the callback prints
_on_close(k) ==
    /\ k \in 1..Len(conns)
    /\ conns[k] = "open"
    /\ conns' = [conns EXCEPT ![k] = "closed"]
    /\ UNCHANGED <<handlerVars, wsVars, _connected, ssid, accountVars, wire, answered,
                   callerVars, pcMain, calls, inbound, routing, codec, stage, first>>

\* _on_error: a transport error on socket k, after which run_forever gives the
\* socket up; the callback prints
_on_error(k) ==
    /\ k \in 1..Len(conns)
    /\ conns[k] \in {"connecting", "open"}
    /\ conns' = [conns EXCEPT ![k] = "closed"]
    /\ UNCHANGED <<handlerVars, wsVars, _connected, ssid, accountVars, wire, answered,
                   callerVars, pcMain, calls, inbound, routing, codec, stage, first>>

\* mutant: close() without its test of self.websocket
CloseOutcome_unguarded(cs, ws) ==
    [conns |-> IF ws # 0 THEN [cs EXCEPT ![ws] = "closed"] ELSE cs,
     raised |-> ws = 0]

\* close() when the sockets are `cs` and self.websocket is `ws`:
\* if self.websocket: self.websocket.close(); the sockets after it, and
\* whether it raised
CloseOutcome(cs, ws) ==
    [conns |-> IF ws # 0 THEN [cs EXCEPT ![ws] = "closed"] ELSE cs,
     raised |-> FALSE]

\* close(), called by the thread that connects
close ==
    /\ pcMain = "idle"
    /\ conns' = CloseOutcome(conns, websocket).conns
    /\ UNCHANGED <<handlerVars, wsVars, _connected, ssid, accountVars, wire, answered,
                   callerVars, pcMain, calls, inbound, routing, codec, stage, first>>

\* the server pushes its time on socket k
ServerTimeSync(k, t) ==
    /\ k \in 1..Len(conns)
    /\ conns[k] = "open"
    /\ _on_message(Json(TimeSyncFrame(t)))
    /\ inbound' = Handled(Json(TimeSyncFrame(t)))
    /\ UNCHANGED <<routing, codec>>
    /\ stage' = StageAfter(k, "timeSync")
    /\ UNCHANGED <<websocket, _connected, ssid, accountVars, conns, wire, answered,
                   callerVars, pcMain, calls, first>>

\* the server answers the session-auth frame sent as frame i with the profile
ServerProfile(i) ==
    /\ i \in 1..Len(wire)
    /\ i \notin answered
    /\ wire[i].name = "ssid"
    /\ conns[wire[i].conn] = "open"
    /\ _on_message(Json(ProfileFrame))
    /\ answered' = answered \cup {i}
    /\ inbound' = Handled(Json(ProfileFrame))
    /\ UNCHANGED <<routing, codec>>
    /\ stage' = StageAfter(wire[i].conn, "profile")
    /\ UNCHANGED <<websocket, _connected, ssid, accountVars, conns, wire, callerVars,
                   pcMain, calls, first>>

(* --------------------------- IQOptionAlgoAPI --------------------------- *)

\* _connect up to the wait of start_websocket.  _login returns None when the
\* client is connected already or the login request fails, and _connect does
\* nothing; else the session cookie is set, start_websocket creates a new
\* WebSocketApp and starts its thread
_connect(login_ok) ==
    /\ pcMain = "idle"
    /\ IF _connected \/ ~login_ok
       THEN UNCHANGED <<websocket, ssid, conns, pcMain, stage>>
       ELSE /\ Len(conns) < MaxConns
            /\ ssid' = "token"
            /\ conns' = Append(conns, "connecting")
            /\ websocket' = Len(conns) + 1
            /\ pcMain' = "start_websocket"
            /\ stage' = "SocketConnecting"
    /\ UNCHANGED <<handlerVars, ws_is_active, _connected, accountVars, wire, answered,
                   callerVars, calls, inbound, routing, codec, first>>

\* start_websocket: while not self.ws_is_active: time.sleep(0.1)
start_websocket ==
    /\ pcMain = "start_websocket"
    /\ ws_is_active
    /\ pcMain' = "send_ssid"
    /\ UNCHANGED <<handlerVars, wsVars, _connected, ssid, accountVars, conns, wire,
                   answered, callerVars, calls, inbound, routing, codec, stage, first>>

\* _connect: self.websocket.send_message('ssid', self.get_session_id());
\* websocket.send raises on a socket that is not open, which ends _connect
_connect_send_ssid(ids) ==
    /\ pcMain = "send_ssid"
    /\ IF CanSend
       THEN /\ \E id \in ids : wire' = wire \o send_message("ssid", ssid, "", id).frames
            /\ stage' = IF stage = "SocketActive" THEN "AuthSent" ELSE stage
            /\ pcMain' = "profile_wait"
       ELSE /\ pcMain' = "idle"
            /\ UNCHANGED <<wire, stage>>
    /\ UNCHANGED <<handlerVars, wsVars, _connected, ssid, accountVars, conns, answered,
                   callerVars, calls, inbound, routing, codec, first>>

\* _connect: while self.message_handler.profile_msg is None: time.sleep(.1)
_connect_profile_wait ==
    /\ pcMain = "profile_wait"
    /\ profile_msg # None
    /\ pcMain' = "set_default_account"
    /\ UNCHANGED <<handlerVars, wsVars, _connected, ssid, accountVars, conns, wire,
                   answered, callerVars, calls, inbound, routing, codec, stage, first>>

\* 4 for a demo account, 1 for a real one
TypeCode(account_type) == IF account_type = "demo" THEN 4 ELSE 1

\* the id of the last balance of a type (each balance of the type overwrites
\* available_accounts[type]), 0 when there is none
LastOfType(balances, type) ==
    LET at == {i \in 1..Len(balances) : balances[i].type = type}
    IN  IF at = {} THEN 0
        ELSE balances[CHOOSE i \in at : \A j \in at : i >= j].id

\* _portfolio_position_change: one frame for each instrument type; the request
\* ids of these frames are read by nothing and are drawn once for the five
PositionChangeFrames(msg_name, account_id, id) ==
    [n \in 1..5 |->
        send_message(msg_name,
                     [name |-> "portfolio.position-changed",
                      params |-> [instrument_type |->
                                      <<"cfd", "forex", "crypto", "digital-option", "binary-option">>[n],
                                  user_balance_id |-> account_id]],
                     "", id).frames[1]]

\* set_default_account, and the assignment of _connected that follows it in
\* _connect; an exception of set_default_account ends _connect before it
set_default_account(ids) ==
    /\ pcMain = "set_default_account"
    /\ pcMain' = "idle"
    /\ LET id == IF "balances" \in DOMAIN profile_msg.msg
                 THEN LastOfType(profile_msg.msg.balances, TypeCode(current_account_type))
                 ELSE 0
       IN  IF id = 0
           THEN UNCHANGED <<current_account_id, wire, _connected>>
           ELSE /\ current_account_id' = id
                /\ IF CanSend
                   THEN /\ \E r \in ids :
                               wire' = wire \o PositionChangeFrames("subscribeMessage", id, r)
                        /\ _connected' = TRUE
                   ELSE UNCHANGED <<wire, _connected>>
    /\ UNCHANGED <<handlerVars, wsVars, ssid, current_account_type, conns, answered,
                   callerVars, calls, inbound, routing, codec, stage, first>>

\* _logout: the flag is cleared when the logout request is answered with 200;
\* the socket, its thread and the projections are left as they are
_logout(ok) ==
    /\ pcMain = "idle"
    /\ _connected' = IF ok THEN FALSE ELSE _connected
    /\ UNCHANGED <<handlerVars, wsVars, ssid, accountVars, conns, wire, answered,
                   callerVars, pcMain, calls, inbound, routing, codec, stage, first>>

(* ------------------- the other operations of the facade ----------------- *)

RefillBody(amount) ==
    [name |-> "internal-billing.reset-training-balance",
     body |-> [amount |-> amount,
               user_balance_id |-> profile_msg.msg.balances[Len(profile_msg.msg.balances)].id]]

\* refill_demo_account -> refill_demo_balance: the request is sent and the
\* thread goes to sleep for one second
refill_demo_account(c, amount, ids) ==
    /\ pc[c] = "idle"
    /\ calls < MaxCalls
    /\ calls' = calls + 1
    /\ IF ~_ensure_connected
       THEN Refuse(c, "refill_demo_account", "", NotConnected) /\ UNCHANGED wire
       ELSE IF profile_msg = None
            THEN Refuse(c, "refill_demo_account", "", Raised("TypeError")) /\ UNCHANGED wire
            ELSE IF "balances" \notin DOMAIN profile_msg.msg
            THEN Refuse(c, "refill_demo_account", "", Raised("KeyError")) /\ UNCHANGED wire
            ELSE IF ~CanSend
                 THEN Refuse(c, "refill_demo_account", "", SendError) /\ UNCHANGED wire
                 ELSE /\ \E id \in ids :
                             wire' = wire \o send_message("sendMessage", RefillBody(amount), "", id).frames
                      /\ pc' = [pc EXCEPT ![c] = "refill_sleep"]
                      /\ op' = [op EXCEPT ![c] = "refill_demo_account"]
                      /\ arg' = [arg EXCEPT ![c] = ""]
                      /\ req' = [req EXCEPT ![c] = Len(wire) + 1]
                      /\ result' = [result EXCEPT ![c] = NoResult]
                      /\ first' = [first EXCEPT ![c] = None]
                      /\ UNCHANGED <<elapsed, timeout>>
    /\ UNCHANGED <<handlerVars, wsVars, _connected, ssid, accountVars, conns, answered,
                   pcMain, inbound, routing, codec, stage>>

\* refill_demo_balance after time.sleep(1): the method ends without a return
\* statement, and refill_demo_account returns what it returned
refill_sleep(c) ==
    /\ pc[c] = "refill_sleep"
    /\ Finish(c, op[c], arg[c], Returned(None))
    /\ UNCHANGED <<handlerVars, wsVars, _connected, ssid, accountVars, conns, wire,
                   answered, pcMain, calls, inbound, routing, codec, stage>>

\* get_tournament_accounts -> get_account_balances, first statement
get_tournament_accounts(c) ==
    /\ pc[c] = "idle"
    /\ calls < MaxCalls
    /\ calls' = calls + 1
    /\ IF ~_ensure_connected
       THEN /\ Refuse(c, "get_tournament_accounts", "", NotConnected)
            /\ UNCHANGED handlerVars
       ELSE /\ balance_data' = None
            /\ Keep(Attributes \ {"balance_data"})
            /\ Goto(c, "balances_send", "get_tournament_accounts", "", 0)
    /\ UNCHANGED <<wsVars, _connected, ssid, accountVars, conns, wire, answered,
                   pcMain, inbound, routing, codec, stage>>

\* get_tournament_accounts: the second wait for balance_data, and the filter
tournament_wait(c) ==
    /\ pc[c] = "tournament_wait"
    /\ IF balance_data # None
       THEN Finish(c, op[c], arg[c], Returned(balance_data))
       ELSE UNCHANGED <<callerVars, first>>
    /\ UNCHANGED <<handlerVars, wsVars, _connected, ssid, accountVars, conns, wire,
                   answered, pcMain, calls, inbound, routing, codec, stage>>

\* switch_account of the facade and of the account manager, up to the first
\* statement of get_account_balances
switch_account(c, account_type) ==
    /\ pc[c] = "idle"
    /\ calls < MaxCalls
    /\ calls' = calls + 1
    /\ IF ~_ensure_connected
       THEN /\ Refuse(c, "switch_account", account_type, NotConnected)
            /\ UNCHANGED handlerVars
       ELSE IF account_type = current_account_type
            THEN /\ Refuse(c, "switch_account", account_type, Returned(PyBool(FALSE)))
                 /\ UNCHANGED handlerVars
            ELSE IF account_type \notin {"real", "demo"}
                 THEN /\ Refuse(c, "switch_account", account_type, Returned(None))
                      /\ UNCHANGED handlerVars
                 ELSE /\ balance_data' = None
                      /\ Keep(Attributes \ {"balance_data"})
                      /\ Goto(c, "balances_send", "switch_account", account_type, 0)
    /\ UNCHANGED <<wsVars, _connected, ssid, accountVars, conns, wire, answered,
                   pcMain, inbound, routing, codec, stage>>

\* switch_account after get_account_balances has returned `accounts`: the loop
\* that looks for the first account of the type (target_account_id stays None,
\* here 0, when there is none), _set_portfolio_subscription (unsubscribe,
\* assign, subscribe), the comparison of the two ids, the account type, and the
\* first statement of the get_active_account_balance of the log line
switch_subscription(c, ids, accounts) ==
    /\ pc[c] = "switch_subscription"
    /\ LET target == FirstOfType(accounts, TypeCode(arg[c]))
       IN  IF ~CanSend
           THEN /\ Finish(c, "switch_account", arg[c], SendError)
                /\ current_account_id' = IF current_account_id # 0
                                         THEN current_account_id ELSE target
                /\ UNCHANGED <<handlerVars, current_account_type, wire>>
           ELSE /\ \E id \in ids :
                       wire' = wire
                               \o (IF current_account_id # 0
                                   THEN PositionChangeFrames("unsubscribeMessage",
                                                             current_account_id, id)
                                   ELSE <<>>)
                               \o PositionChangeFrames("subscribeMessage", target, id)
                /\ current_account_id' = target
                /\ current_account_type' = arg[c]
                /\ balance_data' = None
                /\ Keep(Attributes \ {"balance_data"})
                /\ pc' = [pc EXCEPT ![c] = "balances_send"]
                /\ op' = [op EXCEPT ![c] = "switch_account/get_active_account_balance"]
                /\ UNCHANGED <<arg, req, elapsed, timeout, result, first>>
    /\ UNCHANGED <<wsVars, _connected, ssid, conns, answered, pcMain, calls, inbound, routing, codec, stage>>

\* switch_account when the balances the server lists are those of the profile
_set_portfolio_subscription(c, ids) == switch_subscription(c, ids, Balances)

\* get_position_history_by_time -> _send_position_query, first statement
get_position_history_by_time(c, instrument_type) ==
    /\ pc[c] = "idle"
    /\ calls < MaxCalls
    /\ calls' = calls + 1
    /\ IF ~_ensure_connected
       THEN /\ Refuse(c, "get_position_history_by_time", instrument_type, NotConnected)
            /\ UNCHANGED handlerVars
       ELSE /\ hisory_positions' = None
            /\ Keep(Attributes \ {"hisory_positions"})
            /\ Goto(c, "history_send", "get_position_history_by_time", instrument_type, 0)
    /\ UNCHANGED <<wsVars, _connected, ssid, accountVars, conns, wire, answered,
                   pcMain, inbound, routing, codec, stage>>

\* utilities.get_expiration, in milliseconds: the next minute boundary that is
\* at least 31 seconds away (expiry = 1), or `expiry` minutes after the current
\* minute, one more when the next boundary is less than 31 seconds away
get_expiration(timestamp, expiry) ==
    LET now_date_hm == (timestamp \div 60000) * 60000
        time_until_expiry == now_date_hm + 60000 - timestamp
    IN  IF expiry = 1
        THEN IF time_until_expiry >= 31000
             THEN now_date_hm + 60000
             ELSE now_date_hm + 2 * 60000
        ELSE IF time_until_expiry < 31000
             THEN now_date_hm + (expiry + 1) * 60000
             ELSE now_date_hm + expiry * 60000

\* utilities.get_remaining_secs: expiry_ts - int(timestamp / 1000)
get_remaining_secs(timestamp, duration) ==
    get_expiration(timestamp, duration) \div 1000 - timestamp \div 1000

\* get_trade_outcome up to its loop: the timeout is computed from the server time
get_trade_outcome(c, order_id, expiry) ==
    /\ pc[c] = "idle"
    /\ calls < MaxCalls
    /\ calls' = calls + 1
    /\ IF ~_ensure_connected
       THEN Refuse(c, "get_trade_outcome", order_id, NotConnected)
       ELSE IF server_time = None
            THEN Refuse(c, "get_trade_outcome", order_id, Raised("TypeError"))
            ELSE /\ pc' = [pc EXCEPT ![c] = "outcome_wait"]
                 /\ op' = [op EXCEPT ![c] = "get_trade_outcome"]
                 /\ arg' = [arg EXCEPT ![c] = order_id]
                 /\ req' = [req EXCEPT ![c] = 0]
                 /\ elapsed' = [elapsed EXCEPT ![c] = 0]
                 /\ timeout' = [timeout EXCEPT ![c] =
                                   get_remaining_secs(server_time.v, expiry) + 3]
                 /\ result' = [result EXCEPT ![c] = NoResult]
                 /\ first' = [first EXCEPT ![c] = None]
    /\ UNCHANGED <<handlerVars, wsVars, _connected, ssid, accountVars, conns, wire,
                   answered, pcMain, inbound, routing, codec, stage>>

\* what one pass of the loop of get_trade_outcome does with the entry
\* `order_data` of position_info after `waited` of `limit` seconds
\* mutant: any event recorded for the order counts as its closure
OutcomePoll_any_status(order_data, waited, limit) ==
    IF waited < limit
    THEN IF order_data # None
         THEN Returned(Pair(TRUE, order_data.pnl))
         ELSE NoResult
    ELSE Returned(Pair(FALSE, None))

OutcomePoll(order_data, waited, limit) ==
    IF waited < limit
    THEN IF order_data # None /\ order_data.status = "closed"
         THEN Returned(Pair(TRUE, order_data.pnl))
         ELSE NoResult
    ELSE Returned(Pair(FALSE, None))

outcome_wait(c) ==
    /\ pc[c] = "outcome_wait"
    /\ LET r == OutcomePoll(DictGet(position_info, arg[c]), elapsed[c], timeout[c])
       IN  IF r = NoResult
           THEN UNCHANGED <<callerVars, first>>
           ELSE Finish(c, op[c], arg[c], r)
    /\ UNCHANGED <<handlerVars, wsVars, _connected, ssid, accountVars, conns, wire,
                   answered, pcMain, calls, inbound, routing, codec, stage>>

\* a 'position-changed' push for the orders `order_ids`
PositionFrame(order_ids, status) ==
    [name |-> "position-changed",
     msg |-> [status |-> status, pnl |-> PyInt(7), raw_event |-> [order_ids |-> order_ids]]]

\* the server reports on socket k that the position of the orders `order_ids`,
\* the first of which it has confirmed, has changed
ServerPositionChanged(k, order_ids, status) ==
    /\ k \in 1..Len(conns)
    /\ conns[k] = "open"
    /\ \E r \in DOMAIN open_positions.digital_options :
           open_positions.digital_options[r] = PyInt(order_ids[1])
    /\ _on_message(Json(PositionFrame(order_ids, status)))
    /\ inbound' = Handled(Json(PositionFrame(order_ids, status)))
    /\ UNCHANGED <<routing, codec>>
    /\ stage' = StageAfter(k, "position-changed")
    /\ UNCHANGED <<websocket, _connected, ssid, accountVars, conns, wire, answered,
                   callerVars, pcMain, calls, first>>

\* the acknowledgment of a demo-balance reset: 2000 for success, 4001 for an
\* error with its message, anything else for information
ResetStatuses == {2000, 4001, 5000}
ResetAck(i, status) ==
    [name |-> "training-balance-reset", request_id |-> wire[i].request_id,
     status |-> status,
     msg |-> [message |-> IF status = 4001 THEN PyStr("reset limit reached") ELSE None]]

\* the server acknowledges the demo-balance reset sent as frame i
ServerResetAck(i, status) ==
    /\ i \in Unanswered("internal-billing.reset-training-balance")
    /\ _on_message(Json(ResetAck(i, status)))
    /\ answered' = answered \cup {i}
    /\ inbound' = Handled(Json(ResetAck(i, status)))
    /\ first' = [c \in Callers |->
                    IF pc[c] = "refill_sleep" /\ req[c] = i /\ first[c] = None
                    THEN ResetAck(i, status) ELSE first[c]]
    /\ stage' = StageAfter(wire[i].conn, "training-balance-reset")
    /\ UNCHANGED <<websocket, _connected, ssid, accountVars, conns, wire, callerVars,
                   pcMain, calls, routing, codec>>

(* --------------------------- specifications ---------------------------- *)

\* the client after _connect has returned on a first connection
InitConnected ==
    /\ server_time \in Times
    /\ profile_msg = ProfileFrame
    /\ active_balance_id = 11
    /\ balance_data = None
    /\ candles = None
    /\ _underlying_assests = None
    /\ hisory_positions = None
    /\ open_positions = [digital_options |-> EmptyDict, binary_options |-> EmptyDict]
    /\ position_info = EmptyDict
    /\ websocket = 1
    /\ ws_is_active = TRUE
    /\ _connected = TRUE
    /\ ssid = "token"
    /\ current_account_id = 11
    /\ current_account_type = "demo"
    /\ conns = <<"open">>
    /\ wire = <<>>
    /\ answered = {}
    /\ pc = [c \in Callers |-> "idle"]
    /\ op = [c \in Callers |-> "none"]
    /\ arg = [c \in Callers |-> ""]
    /\ req = [c \in Callers |-> 0]
    /\ elapsed = [c \in Callers |-> 0]
    /\ timeout = [c \in Callers |-> 0]
    /\ result = [c \in Callers |-> NoResult]
    /\ pcMain = "idle"
    /\ calls = 0
    /\ inbound = None
    /\ routing = [k \in 1..MaxConns |-> None]
    /\ codec = None
    /\ stage = "ProfileReceived"
    /\ first = [c \in Callers |-> None]

\* the arguments of a placement: a valid call, and one call for each way
\* the arguments can be wrong
TradeInput(asset, amount, direction, expiry) ==
    [asset |-> asset, amount |-> amount, direction |-> direction, expiry |-> expiry]
TradeInputs ==
    {TradeInput("EURUSD-op", 1, "CALL", 1), TradeInput("", 1, "call", 1),
     TradeInput("XYZ", 1, "call", 1), TradeInput("EURUSD-op", 0, "call", 1),
     TradeInput("EURUSD-op", 1, "up", 1), TradeInput("EURUSD-op", 1, "put", 0)}

NextTrade ==
    \/ \E c \in Callers, i \in TradeInputs, r \in RequestIds :
           execute_digital_option_trade(c, i.asset, i.amount, i.direction, i.expiry, r)
    \/ \E c \in Callers : wait_for_oreder_confirmation(c)
    \/ \E i \in 1..Len(wire), m \in PlacedMsgs : ServerPlaced(i, m)
    \/ Tick

SpecTrade == InitConnected /\ [][NextTrade]_vars

\* what a thread does once it has started a query
QuerySteps(c, ids) ==
    \/ candles_send(c, ids) \/ candles_wait(c)
    \/ balances_send(c, ids) \/ balances_wait(c)
    \/ history_send(c, ids) \/ history_wait(c)

QueryStep(c) ==
    \/ QuerySteps(c, ClockFractions)
    \/ underlying_send(c, ClockFractions) \/ underlying_wait(c)

NextQuery ==
    \/ \E c \in Callers, a \in Assets \cup {"XYZ"} : get_candle_history(c, a)
    \/ \E c \in Callers : get_current_account_balance(c)
    \/ \E c \in Callers, t \in InstrumentTypes \cup {"stocks"} : get_underlying_assests(c, t)
    \/ \E c \in Callers, t \in {"digital-option", "binary-option"} :
           get_position_history_by_page(c, t)
    \/ \E c \in Callers : QueryStep(c)
    \/ \E i \in 1..Len(wire) : ServerReply(i)
    \/ Tick

SpecQuery == InitConnected /\ [][NextQuery]_vars

\* the clock advances and every thread that is inside a call keeps running;
\* nothing obliges the server to answer or a thread to start a call
FairQuery ==
    /\ SpecQuery
    /\ WF_vars(Tick)
    /\ \A c \in Callers : WF_vars(QueryStep(c))

\* the client after IQOptionAlgoAPI.__init__
Constructed ==
    /\ server_time = None
    /\ profile_msg = None
    /\ active_balance_id = 0
    /\ balance_data = None
    /\ candles = None
    /\ _underlying_assests = None
    /\ hisory_positions = None
    /\ open_positions = [digital_options |-> EmptyDict, binary_options |-> EmptyDict]
    /\ position_info = EmptyDict
    /\ websocket = 0
    /\ ws_is_active = FALSE
    /\ _connected = FALSE
    /\ ssid = ""
    /\ current_account_id = 0
    /\ current_account_type = "demo"
    /\ conns = <<>>
    /\ wire = <<>>
    /\ answered = {}
    /\ pc = [c \in Callers |-> "idle"]
    /\ op = [c \in Callers |-> "none"]
    /\ arg = [c \in Callers |-> ""]
    /\ req = [c \in Callers |-> 0]
    /\ elapsed = [c \in Callers |-> 0]
    /\ timeout = [c \in Callers |-> 0]
    /\ result = [c \in Callers |-> NoResult]
    /\ pcMain = "idle"
    /\ calls = 0
    /\ inbound = None
    /\ routing = [k \in 1..MaxConns |-> None]
    /\ stage = "Disconnected"
    /\ first = [c \in Callers |-> None]

Init == Constructed /\ codec = None

\* the steps of _connect after its first
ConnectStep(ids) ==
    \/ start_websocket
    \/ _connect_send_ssid(ids)
    \/ _connect_profile_wait
    \/ set_default_account(ids)

\* what the server does for a connection
ServerStep ==
    \/ \E k \in 1..MaxConns : ServerOpen(k)
    \/ \E k \in 1..MaxConns, t \in Times : ServerTimeSync(k, t)
    \/ \E i \in 1..Len(wire) : ServerProfile(i)

\* the client connects, logs out and connects again
NextConnect ==
    \/ \E ok \in BOOLEAN : _connect(ok)
    \/ ConnectStep(ClockFractions)
    \/ \E ok \in BOOLEAN : _logout(ok)
    \/ ServerStep

SpecConnect == Init /\ [][NextConnect]_vars

\* the thread that connects keeps running; nothing obliges the server to
\* complete the handshake, to push a frame or to answer
FairConnect ==
    /\ SpecConnect
    /\ WF_vars(ConnectStep(ClockFractions))

\* a thread calls the TradeManager before, while and after the client connects
NextTradeManager ==
    \/ \E ok \in BOOLEAN : conns = <<>> /\ _connect(ok)
    \/ ConnectStep({123456})
    \/ ServerStep
    \/ \E c \in {"A"}, i \in TradeInputs :
           place_digital_option(c, i.asset, i.amount, i.direction, i.expiry, "77")
    \/ \E c \in {"A"} : wait_for_oreder_confirmation(c)
    \/ \E i \in 1..Len(wire), m \in PlacedMsgs : ServerPlaced(i, m)
    \/ Tick

SpecTradeManager == Init /\ [][NextTradeManager]_vars

\* what a thread does once it is inside a call
CallStep(c) ==
    \/ wait_for_oreder_confirmation(c)
    \/ QuerySteps(c, {123456})
    \/ tournament_wait(c)
    \/ _set_portfolio_subscription(c, {123456})
    \/ outcome_wait(c)
    \/ refill_sleep(c)

\* a call of the facade, with the arguments of main.py
FacadeCall(c) ==
    \/ execute_digital_option_trade(c, "EURUSD-op", 1, "call", 1, "77")
    \/ get_candle_history(c, "EURUSD-op")
    \/ get_current_account_balance(c)
    \/ get_position_history_by_page(c, "digital-option")
    \/ get_position_history_by_time(c, "digital-option")
    \/ refill_demo_account(c, 10000, {123456})
    \/ get_tournament_accounts(c)
    \/ \E t \in {"demo", "real", "gold"} : switch_account(c, t)
    \/ get_trade_outcome(c, 999, 1)

\* the threads that call the facade
FacadeCallers == {"A"}

\* the client connects once and logs out, a thread calls the facade before,
\* while and after that, and the peer may close the socket
NextFacade ==
    \/ \E ok \in BOOLEAN : conns = <<>> /\ _connect(ok)
    \/ ConnectStep({123456})
    \/ \E ok \in BOOLEAN : _logout(ok)
    \/ ServerStep
    \/ \E c \in FacadeCallers : FacadeCall(c)
    \/ \E c \in FacadeCallers : CallStep(c)
    \/ \E i \in 1..Len(wire) : ServerPlaced(i, [id |-> PyInt(999), message |-> None])
    \/ \E i \in 1..Len(wire) : ServerReply(i)
    \/ \E k \in 1..MaxConns : ServerPositionChanged(k, <<999, 1000>>, "closed")
    \/ \E i \in 1..Len(wire), st \in ResetStatuses : ServerResetAck(i, st)
    \/ \E k \in 1..MaxConns : _on_close(k)
    \/ Tick

SpecFacade == Init /\ [][NextFacade]_vars

\* the balances the server may list: a demo and a real account, or a demo
\* account only
AccountLists == {Balances, <<[id |-> 11, type |-> 4]>>}

\* threads of a connected client switch between the accounts
NextSwitch ==
    \/ \E c \in Callers, t \in {"demo", "real", "gold"} : switch_account(c, t)
    \/ \E c \in Callers : balances_send(c, {123456})
    \/ \E c \in Callers : balances_wait(c)
    \/ \E c \in Callers, accounts \in AccountLists : switch_subscription(c, {123456}, accounts)
    \/ \E i \in 1..Len(wire) : ServerReply(i)

SpecSwitch == InitConnected /\ [][NextSwitch]_vars

(* ------------------ the socket threads, frame by frame ------------------ *)

\* frames whose handler fails: a profile without msg.balances, candles without
\* msg.candles, a position change with no order id, a balance reset without status
MalformedFrames ==
    {[name |-> "profile", msg |-> [user_id |-> 1]],
     [name |-> "candles", msg |-> [error |-> "no data"]],
     [name |-> "position-changed",
      msg |-> [status |-> "open", pnl |-> PyInt(0), raw_event |-> [order_ids |-> <<>>]]],
     [name |-> "training-balance-reset", msg |-> [message |-> PyStr("done")]]}

\* frames for which `handlers` has no entry: a name that is not routed, and
\* no name at all
UnroutedFrames ==
    {[name |-> "heartbeat", msg |-> PyInt(5)], [msg |-> PyInt(5)]}

\* what the server may push unasked: its time, text that is no JSON, frames
\* whose handler fails and frames that have no handler
Pushes ==
    {Json(TimeSyncFrame(t)) : t \in Times} \cup {Garbage} \cup {Json(f) : f \in MalformedFrames}
    \cup {Json(f) : f \in UnroutedFrames}

\* the thread of socket k takes a frame from the socket and enters _on_message
Receive(k, message) ==
    /\ k \in 1..Len(conns)
    /\ conns[k] = "open"
    /\ routing[k] = None
    /\ routing' = [routing EXCEPT ![k] = message]
    /\ UNCHANGED codec
    /\ UNCHANGED <<handlerVars, wsVars, _connected, ssid, accountVars, conns, wire, answered,
                   callerVars, pcMain, calls, inbound, stage, first>>

\* the server answers the session-auth frame sent as frame i with the profile,
\* and the thread of that socket enters _on_message with it
ReceiveProfile(i) ==
    /\ i \in 1..Len(wire)
    /\ i \notin answered
    /\ wire[i].name = "ssid"
    /\ conns[wire[i].conn] = "open"
    /\ routing[wire[i].conn] = None
    /\ routing' = [routing EXCEPT ![wire[i].conn] = Json(ProfileFrame)]
    /\ UNCHANGED codec
    /\ answered' = answered \cup {i}
    /\ UNCHANGED <<handlerVars, wsVars, _connected, ssid, accountVars, conns, wire,
                   callerVars, pcMain, calls, inbound, stage, first>>

\* the thread of socket k runs _on_message to its end and leaves it
Route(k) ==
    /\ k \in 1..MaxConns
    /\ routing[k] # None
    /\ _on_message(routing[k])
    /\ inbound' = Handled(routing[k])
    /\ routing' = [routing EXCEPT ![k] = None]
    /\ UNCHANGED codec
    /\ stage' = IF routing[k].json /\ ~Raises(routing[k].body)
                THEN StageAfter(k, IF Named(routing[k].body)
                                   THEN routing[k].body.name ELSE "")
                ELSE stage
    /\ UNCHANGED <<websocket, _connected, ssid, accountVars, conns, wire, answered,
                   callerVars, pcMain, calls, first>>

\* the client connects, logs out, connects again and closes; every socket has
\* its thread, and the server pushes its time and text that is no JSON on
\* every open socket
NextSockets ==
    \/ \E ok \in BOOLEAN : _connect(ok)
    \/ ConnectStep({123456})
    \/ \E ok \in BOOLEAN : _logout(ok)
    \/ \E k \in 1..MaxConns : ServerOpen(k)
    \/ \E k \in 1..MaxConns, t \in Times : Receive(k, Json(TimeSyncFrame(t)))
    \/ \E k \in 1..MaxConns : Receive(k, Garbage)
    \/ \E i \in 1..Len(wire) : ReceiveProfile(i)
    \/ \E k \in 1..MaxConns : Route(k)
    \/ \E k \in 1..MaxConns : _on_close(k)
    \/ \E k \in 1..MaxConns : _on_error(k)
    \/ close

SpecSockets == Init /\ [][NextSockets]_vars

\* the client connects once, logs out and closes; the server pushes every
\* kind of frame on the socket
NextRouter ==
    \/ \E ok \in BOOLEAN : conns = <<>> /\ _connect(ok)
    \/ ConnectStep({123456})
    \/ \E ok \in BOOLEAN : _logout(ok)
    \/ \E k \in 1..MaxConns : ServerOpen(k)
    \/ \E k \in 1..MaxConns, m \in Pushes : Receive(k, m)
    \/ \E i \in 1..Len(wire) : ReceiveProfile(i)
    \/ \E k \in 1..MaxConns : Route(k)
    \/ \E k \in 1..MaxConns : _on_close(k)
    \/ \E k \in 1..MaxConns : _on_error(k)
    \/ close

SpecRouter == Init /\ [][NextRouter]_vars

\* payloads the server pushes: two batches of candles, two balance lists, two
\* pages of closed positions, two profiles, two asset lists
Batches == {PyList(<<[id |-> 1, close |-> 10], [id |-> 2, close |-> 11]>>),
            PyList(<<[id |-> 3, close |-> 12]>>)}
BalanceLists == {Balances, <<[id |-> 12, type |-> 1], [id |-> 13, type |-> 4]>>}
ProjectionFrames ==
    {[name |-> "candles", msg |-> [candles |-> b]] : b \in Batches}
    \cup {[name |-> "balances", msg |-> PyList(b)] : b \in BalanceLists}
    \cup {[name |-> "history-positions", msg |-> [positions |-> b]] : b \in Batches}
    \cup {[name |-> "profile", msg |-> [balances |-> b]] : b \in BalanceLists}
    \cup {[name |-> "underlying-list", msg |-> [type |-> "digital-option", underlying |-> b]] :
              b \in Batches}
    \cup {[name |-> "underlying-list", msg |-> [type |-> "forex", items |-> b]] : b \in Batches}
    \cup {[name |-> "initialization-data", msg |-> b] : b \in Batches}
    \cup {TimeSyncFrame(t) : t \in Times \cup {PyInt(30000)}}

\* the thread of socket k runs _on_message on a frame the server has pushed;
\* `after` is the frame that was handled before it
ServerPush(k, message) ==
    /\ k \in 1..Len(conns)
    /\ conns[k] = "open"
    /\ _on_message(Json(message))
    /\ inbound' = [json |-> TRUE, body |-> message, raised |-> Raises(message),
                   after |-> IF inbound = None THEN None ELSE inbound.body]
    /\ stage' = StageAfter(k, message.name)
    /\ UNCHANGED <<websocket, _connected, ssid, accountVars, conns, wire, answered,
                   callerVars, pcMain, calls, routing, codec, first>>

\* a connected client that receives pushes and does nothing else
NextPush ==
    \E k \in 1..MaxConns, message \in ProjectionFrames : ServerPush(k, message)

SpecPush == InitConnected /\ [][NextPush]_vars

\* the position events the server pushes: for order 999, for order 1000, and
\* for both with 1000 first; open or closed
PositionEvents ==
    {PositionFrame(ids, status) : ids \in {<<999>>, <<1000>>, <<1000, 999>>},
                                  status \in {"open", "closed"}}

\* threads ask for the outcome of the orders 999 and 1000 while position events
\* are pushed
NextOutcome ==
    \/ \E c \in Callers, o \in {999, 1000} : get_trade_outcome(c, o, 1)
    \/ \E c \in Callers : outcome_wait(c)
    \/ \E k \in 1..MaxConns, message \in PositionEvents : ServerPush(k, message)
    \/ Tick

SpecOutcome == InitConnected /\ [][NextOutcome]_vars

(* ------------------------------- JSON ---------------------------------- *)

RECURSIVE json_dumps_ints_quoted(_)
\* mutant: numbers are written as strings
json_dumps_ints_quoted(obj) ==
    CASE obj.t = "none" -> [j |-> "null"]
      [] obj.t = "bool" -> [j |-> IF obj.v THEN "true" ELSE "false"]
      [] obj.t = "int" -> [j |-> "string", chars |-> obj.v]
      [] obj.t = "float" -> [j |-> "number", digits |-> obj.v, point |-> TRUE]
      [] obj.t = "str" -> [j |-> "string", chars |-> obj.v]
      [] obj.t \in {"list", "tuple"} ->
             [j |-> "array", items |-> [i \in DOMAIN obj.v |-> json_dumps_ints_quoted(obj.v[i])]]
      [] obj.t = "dict" ->
             [j |-> "object", members |-> [k \in DOMAIN obj.v |-> json_dumps_ints_quoted(obj.v[k])]]

RECURSIVE json_dumps(_)
\* json.dumps: the JSON text of a Python value, as the tree of its tokens; a
\* list and a tuple are both written as an array
json_dumps(obj) ==
    CASE obj.t = "none" -> [j |-> "null"]
      [] obj.t = "bool" -> [j |-> IF obj.v THEN "true" ELSE "false"]
      [] obj.t = "int" -> [j |-> "number", digits |-> obj.v, point |-> FALSE]
      [] obj.t = "float" -> [j |-> "number", digits |-> obj.v, point |-> TRUE]
      [] obj.t = "str" -> [j |-> "string", chars |-> obj.v]
      [] obj.t \in {"list", "tuple"} ->
             [j |-> "array", items |-> [i \in DOMAIN obj.v |-> json_dumps(obj.v[i])]]
      [] obj.t = "dict" ->
             [j |-> "object", members |-> [k \in DOMAIN obj.v |-> json_dumps(obj.v[k])]]

RECURSIVE json_loads(_)
\* json.loads: the Python value of a JSON text; an array is read as a list, a
\* number with a point as a float and one without as an int
json_loads(text) ==
    CASE text.j = "null" -> None
      [] text.j = "true" -> PyBool(TRUE)
      [] text.j = "false" -> PyBool(FALSE)
      [] text.j = "number" -> IF text.point THEN PyFloat(text.digits) ELSE PyInt(text.digits)
      [] text.j = "string" -> PyStr(text.chars)
      [] text.j = "array" -> PyList([i \in DOMAIN text.items |-> json_loads(text.items[i])])
      [] text.j = "object" -> PyDict([k \in DOMAIN text.members |-> json_loads(text.members[k])])

\* payloads like those the client sends and receives
Payloads ==
    <<PyStr("token"),
      PyDict([name |-> PyStr("get-candles"), version |-> PyStr("2.0"),
              body |-> PyDict([active_id |-> PyInt(1), size |-> PyInt(60),
                               only_closed |-> PyBool(TRUE)])]),
      PyDict([name |-> PyStr("portfolio.position-changed"), version |-> PyStr("3.0"),
              params |-> PyDict([routingFilters |->
                                    PyDict([instrument_type |-> PyStr("forex"),
                                            user_balance_id |-> PyInt(11)])])]),
      PyDict([name |-> PyStr("get-initialization-data"), version |-> PyStr("4.0"),
              body |-> PyDict(EmptyDict)]),
      PyDict([candles |-> PyList(<<PyDict([id |-> PyInt(1), close |-> PyFloat(<<1, 1050>>)]),
                                  PyDict([id |-> PyInt(2), close |-> PyFloat(<<1, 1049>>)])>>)]),
      PyDict([id |-> None, message |-> PyStr("low balance")]),
      PyDict([raw_event |-> PyDict([order_ids |-> PyList(<<PyInt(999), PyInt(1000)>>)]),
              status |-> PyStr("closed")]),
      PyInt(29000)>>

\* the request ids of envelopes: '', one drawn by a placement, one made up
\* from the clock
EnvelopeIds == <<PyStr(""), PyStr("77"), PyInt(123456)>>
EnvelopeNames == {"sendMessage", "ssid", "candles", "timeSync"}

\* dict(name=name, msg=msg, request_id=request_id)
EnvelopeDict(name, msg, request_id) ==
    PyDict([name |-> PyStr(name), msg |-> msg, request_id |-> request_id])

\* send_message: data = json.dumps(dict(name=name, msg=msg, request_id=request_id))
Dump ==
    /\ codec.at = "envelope"
    /\ codec' = [codec EXCEPT !.at = "wire", !.data = json_dumps(codec.envelope)]
    /\ UNCHANGED <<handlerVars, wsVars, _connected, ssid, accountVars, conns, wire, answered,
                   callerVars, pcMain, calls, inbound, routing, stage, first>>

\* _on_message: message = json.loads(message)
Load ==
    /\ codec.at = "wire"
    /\ codec' = [codec EXCEPT !.at = "message", !.message = json_loads(codec.data)]
    /\ UNCHANGED <<handlerVars, wsVars, _connected, ssid, accountVars, conns, wire, answered,
                   callerVars, pcMain, calls, inbound, routing, stage, first>>

\* the message that was read is written again
DumpAgain ==
    /\ codec.at = "message"
    /\ codec' = [codec EXCEPT !.at = "again", !.again = json_dumps(codec.message)]
    /\ UNCHANGED <<handlerVars, wsVars, _connected, ssid, accountVars, conns, wire, answered,
                   callerVars, pcMain, calls, inbound, routing, stage, first>>

InitCodec ==
    /\ Constructed
    /\ \E name \in EnvelopeNames, m \in DOMAIN Payloads, r \in DOMAIN EnvelopeIds :
           codec = [at |-> "envelope",
                    envelope |-> EnvelopeDict(name, Payloads[m], EnvelopeIds[r]),
                    data |-> None, message |-> None, again |-> None]

NextCodec == Dump \/ Load \/ DumpAgain

SpecCodec == InitCodec /\ [][NextCodec]_vars

(* ------------------------------ claims --------------------------------- *)

\* the entry of key k in the dict d: whether it is set, and to what
Entry(d, k) == IF k \in DOMAIN d THEN [set |-> TRUE, val |-> d[k]] ELSE [set |-> FALSE]
digital_options == open_positions.digital_options

\* this step routes a 'digital-option-placed' frame
RoutesPlaced ==
    /\ answered' # answered
    /\ inbound'.json
    /\ inbound'.body.name = "digital-option-placed"

\* thread c has ended a call that got as far as sending its request
Ended(c, o) == pc[c] = "idle" /\ op[c] = o /\ req[c] # 0

\* C1 (as claimed): once an outcome is recorded for a request id K, no later step
\* changes the entry of K: the first confirmation wins.
C1_FirstWins ==
    [][\A k \in RequestIds :
          k \in DOMAIN digital_options => Entry(digital_options', k) = Entry(digital_options, k)]_vars

\* C2: an entry of the open-position map changes only when a confirmation with
\* that very request id is routed, and then to the outcome this frame carries;
\* and a confirmation wait returns the entry of its own request id.  So a wait
\* on R1 returns only what a frame with request id R1 carried.
C2_OwnConfirmationOnly ==
    [][/\ \A k \in RequestIds :
              Entry(digital_options', k) # Entry(digital_options, k)
              => /\ RoutesPlaced
                 /\ inbound'.body.request_id = k
                 /\ digital_options'[k] \in {inbound'.body.msg.id, inbound'.body.msg.message}
       /\ \A c \in Callers :
              (pc[c] = "order_wait" /\ pc'[c] = "idle" /\ result'[c].val # None)
              => result'[c].val.v = DictGet(digital_options, arg[c])]_vars

\* C2 witness: two waits on distinct request ids have both returned an outcome,
\* different ones, and the confirmation of the placement sent first came last.
C2_Witness ==
    /\ Ended("A", "trade") /\ Ended("B", "trade")
    /\ arg["A"] # arg["B"]
    /\ req["A"] < req["B"]
    /\ result["A"].kind = "return" /\ result["A"].val # None
    /\ result["B"].kind = "return" /\ result["B"].val # None
    /\ result["A"].val.v # result["B"].val.v
    /\ inbound # None /\ inbound.body.request_id = arg["A"]

\* C3 (as claimed): a wait during which, before its timeout, a confirmation for
\* its request id was routed returns what that confirmation carried:
\* (True, id) for an order id, (False, message) for an error message.
C3_ConfirmationResolvesWait ==
    \A c \in Callers :
        (Ended(c, "trade") /\ first[c] # None)
        => /\ first[c].msg.id # None
              => result[c] = Returned(Pair(TRUE, first[c].msg.id))
           /\ (first[c].msg.id = None /\ first[c].msg.message # None)
              => result[c] = Returned(Pair(FALSE, first[c].msg.message))

\* C4: routing a confirmation with request id R sets the entry of R to msg.id
\* when there is one, to msg.message when there is no id and the message is a
\* string, and changes the entry of no other key.
C4_OutcomeDiscrimination ==
    [][RoutesPlaced =>
          LET f == inbound'.body
          IN  /\ f.msg.id # None
                 => Entry(digital_options', f.request_id) = [set |-> TRUE, val |-> f.msg.id]
              /\ (f.msg.id = None /\ f.msg.message.t = "str")
                 => Entry(digital_options', f.request_id) = [set |-> TRUE, val |-> f.msg.message]
              /\ \A k \in RequestIds \ {f.request_id} :
                     Entry(digital_options', k) = Entry(digital_options, k)]_vars

\* C4 witness: one key holds a numeric order id and the other an error message.
C4_Witness ==
    /\ Entry(digital_options, "77") = [set |-> TRUE, val |-> PyInt(12345)]
    /\ Entry(digital_options, "78") = [set |-> TRUE, val |-> PyStr("low balance")]

\* C5 (as claimed): a confirmation wait or a position-history query for which no
\* matching frame arrives ends by raising TimeoutError, never by returning.
C5_TimeoutError ==
    \A c \in Callers :
        /\ (Ended(c, "trade") /\ first[c] = None /\ arg[c] \notin DOMAIN digital_options)
           => result[c] = Raised("TimeoutError")
        /\ (Ended(c, "get_position_history_by_page") /\ first[c] = None)
           => result[c] = Raised("TimeoutError")

QueryOps == {"get_candle_history", "get_current_account_balance",
             "get_underlying_assests", "get_position_history_by_page"}

\* C6 (as claimed): every blocking request operation carries a timeout, so a
\* thread that is inside one eventually leaves it, whether or not the server
\* ever sends the awaited frame.
C6_EveryCallEnds ==
    \A c \in Callers : (pc[c] # "idle") ~> (pc[c] = "idle")

\* C7 (as claimed): once the frame answering the request of a waiting thread has
\* been routed, that thread eventually returns, whatever another thread does.
C7_NoCrossCancellation ==
    \A c \in Callers :
        (pc[c] \in {"candles_wait", "balances_wait"} /\ req[c] \in answered)
        ~> (pc[c] = "idle")

\* C8 (as claimed): a query that returns a payload returns the payload of the
\* frame that answers its own request, never that of another thread's request.
C8_OwnPayload ==
    \A c \in Callers :
        (\E o \in QueryOps : Ended(c, o)) /\ result[c].kind = "return"
        => result[c].val.of = req[c]

\* C9 (as claimed): the client is in the authenticated state only when, on the
\* current connection attempt and in this order, a session token was obtained,
\* the new socket delivered its first frame, the 'ssid' frame was sent, and a
\* 'profile' frame was received after that.
C9_AuthenticatedInOrder ==
    _connected => stage = "ProfileReceived"

\* the domain calls of the facade
FacadeOps == {"get_current_account_balance", "refill_demo_account",
              "get_tournament_accounts", "switch_account", "get_candle_history",
              "get_position_history_by_time", "get_position_history_by_page",
              "trade", "get_trade_outcome"}

\* C10: a call of the facade made while the client is not in the authenticated
\* state ends at once with the not-connected error: no thread enters an
\* operation, no frame is sent, and no projection and no account state changes.
C10_NotConnectedRefused ==
    [][(calls' # calls /\ ~_connected)
       => /\ pc' = pc
          /\ \E c \in Callers :
                 /\ pc[c] = "idle"
                 /\ op'[c] \in FacadeOps
                 /\ result'[c] = NotConnected
          /\ UNCHANGED <<wire, handlerVars, wsVars, accountVars>>]_vars

\* C10 witness: after a candle history was fetched and the client logged out,
\* a second get_candle_history was refused, with the socket still open and the
\* candles of the first call still in the projection.
C10_Witness ==
    /\ ~_connected
    /\ calls = 2
    /\ conns = <<"open">>
    /\ candles # None
    /\ op["A"] = "get_candle_history"
    /\ result["A"] = NotConnected

\* the thread of socket k leaves _on_message in this step
Leaves(k) == routing[k] # None /\ routing'[k] = None

\* C11: the active flag is false after construction; a step sets it only when a
\* socket thread leaves _on_message with a frame that was parsed (never the
\* completion of the handshake, never a frame that is no JSON); and
\* start_websocket returns only when the flag is true.
C11_ActiveAfterParsedFrame ==
    /\ ~ws_is_active
    /\ [][/\ (~ws_is_active /\ ws_is_active')
             => \E k \in 1..MaxConns : Leaves(k) /\ routing[k].json
          /\ (pcMain = "start_websocket" /\ pcMain' # "start_websocket")
             => ws_is_active]_vars

\* C11 witness: the handshake of the first socket was completed, a frame that is
\* no JSON was dropped, and start_websocket is still waiting with the flag false.
C11_Witness ==
    /\ conns = <<"open">>
    /\ inbound # None /\ ~inbound.json
    /\ pcMain = "start_websocket"
    /\ ~ws_is_active

\* C12 (as claimed): once the current socket is closed (by the peer, by a
\* transport error or by close()), the active flag is false.
C12_InactiveAfterClose ==
    (websocket # 0 /\ conns[websocket] = "closed") => ~ws_is_active

\* this step is taken by the router: no calling thread moves
RouterStep == pc' = pc /\ calls' = calls /\ pcMain' = pcMain

\* C13 (as claimed): a step that changes a projection is a step of the router;
\* no step of a calling thread writes one.
C13_OnlyRouterWrites ==
    [][handlerVars' # handlerVars => RouterStep]_vars

\* C14 (as claimed): at no moment are the threads of two open sockets inside
\* handle_message, each with a frame its socket has delivered.
C14_OneRouterAtATime ==
    Cardinality({k \in 1..Len(conns) :
                    conns[k] = "open" /\ routing[k] # None /\ routing[k].json}) <= 1

\* C15: when a socket thread leaves _on_message with a frame that is no JSON,
\* no projection, no flag, no socket handle and no socket state has changed and
\* no exception has left _on_message; and a time frame handled next, right
\* after a dropped frame, sets the server time and the active flag.
C15_UnparsableDropped ==
    [][\A k \in 1..MaxConns :
          Leaves(k)
          => /\ ~routing[k].json
                => /\ UNCHANGED <<handlerVars, wsVars, conns, _connected>>
                   /\ ~inbound'.raised
             /\ (/\ inbound # None /\ ~inbound.json
                 /\ routing[k].json /\ Named(routing[k].body)
                 /\ routing[k].body.name = "timeSync")
                => /\ server_time' = routing[k].body.msg
                   /\ ws_is_active']_vars

\* C15 witness: a frame that is no JSON was dropped after the connection was
\* brought up; the socket is open, the flag and the server time are set.
C15_Witness ==
    /\ inbound # None /\ ~inbound.json
    /\ conns = <<"open">>
    /\ ws_is_active
    /\ _connected
    /\ server_time # None

\* C16 (as claimed): no exception leaves _on_message, whatever frame is handled.
C16_NoErrorLeavesRouter ==
    inbound # None => ~inbound.raised

\* C17 (as claimed): when the confirmation of a placement, carrying an order
\* id, is routed after the wait of that placement has timed out, nothing is
\* stored: the open-position map is the same after the frame as before it.
C17_LateConfirmationNoOp ==
    [][\A c \in Callers :
          (/\ RoutesPlaced
           /\ inbound'.body.msg.id # None
           /\ Ended(c, "trade")
           /\ result[c] = Returned(None)
           /\ req[c] \in answered' \ answered)
          => digital_options' = digital_options]_vars

\* C18 (as claimed): no call of the facade ends by raising an exception.
C18_ErrorsReturned ==
    \A c \in Callers : result[c].kind # "raise"

\* C19: a placement whose wait ran into its timeout returns None; a placement
\* that returns before the timeout returns (True, order id) or
\* (False, error text), a pair in both cases, and the second member of the
\* pair is an integer exactly when the first is True.
C19_OutcomesDistinct ==
    \A c \in Callers :
        Ended(c, "trade")
        => /\ elapsed[c] >= OrderTimeout => result[c] = Returned(None)
           /\ elapsed[c] < OrderTimeout
              => /\ result[c].kind = "return"
                 /\ result[c].val # None
                 /\ result[c].val.t = "tuple"
                 /\ result[c].val.ok <=> result[c].val.v.t = "int"
                 /\ ~result[c].val.ok <=> result[c].val.v.t = "str"

\* C19 witness: one placement has timed out and returned None, another was
\* rejected by the server and returned (False, 'low balance').
C19_Witness ==
    /\ Ended("A", "trade") /\ Ended("B", "trade")
    /\ elapsed["A"] >= OrderTimeout
    /\ result["A"] = Returned(None)
    /\ result["B"] = Returned(Pair(FALSE, PyStr("low balance")))

\* C20 (as claimed): a connection attempt that has started ends, whether or
\* not the socket delivers a frame and the profile arrives.
C20_ConnectTerminates ==
    (pcMain # "idle") ~> (pcMain = "idle")

\* ---- C21 ----
\* C21: when the acknowledgment of a demo-balance reset is routed while
\* refill_demo_account is still running, no exception leaves the router, and
\* an acknowledgment with status 4001 makes the call end with something other
\* than the plain None it returns on success, so that the caller learns of the
\* failure and its message.
C21_ResetAckSurfaced ==
    \A c \in Callers :
        (Ended(c, "refill_demo_account") /\ first[c] # None) =>
            /\ ~Raises(first[c])
            /\ first[c].status = 4001 => result[c] # Returned(None)

\* ---- C22 ----
\* the threads whose request has been sent and is neither answered nor given up
Outstanding ==
    {c \in Callers : /\ pc[c] \in {"order_wait", "candles_wait", "underlying_wait",
                                   "balances_wait", "history_wait"}
                     /\ req[c] # 0
                     /\ req[c] \notin answered}

\* C22: the requests that are outstanding at the same time carry request ids
\* that differ from one another.
C22_OutstandingIdsDistinct ==
    \A c, d \in Outstanding :
        c # d => wire[req[c]].request_id # wire[req[d]].request_id

\* ---- C23 ----
\* the positions a thread is in right after its request has been sent
AfterSend == {"order_wait", "candles_wait", "balances_wait", "history_wait", "refill_sleep"}

\* what send_message does with the request id it is given
SendsOneFrame ==
    \A rid \in RequestIds \cup {""}, fraction \in ClockFractions :
        LET sent == send_message("sendMessage", None, rid, fraction)
        IN  /\ Len(sent.frames) = 1
            /\ sent.frames[1].request_id = sent.returns
            /\ rid = "" => sent.returns = fraction
            /\ rid # "" => sent.returns = rid

\* a step in which a thread sends its request
SendStep ==
    \A c \in Callers :
        (pc'[c] # pc[c] /\ pc'[c] \in AfterSend) =>
            /\ Len(wire') = Len(wire) + 1
            /\ SubSeq(wire', 1, Len(wire)) = wire
            /\ req'[c] = Len(wire')
            /\ IF pc'[c] = "order_wait"
               THEN wire'[Len(wire')].request_id = arg'[c]
               ELSE wire'[Len(wire')].request_id \in ClockFractions

\* C23: send_message given '' makes up a request id from the clock, puts it in
\* the frame and returns it; given another id it sends and returns that id;
\* every call puts exactly one frame on the wire.
C23_SendMessageIds == [][SendsOneFrame /\ SendStep]_vars

\* a placement has been sent with the id it was given and a query with an id
\* made up from the clock
C23_Witness ==
    /\ \E i \in 1..Len(wire) :
           /\ wire[i].name = "sendMessage"
           /\ wire[i].msg.name = "digital-options.place-digital-option"
           /\ wire[i].request_id = "77"
    /\ \E j \in 1..Len(wire) :
           /\ wire[j].name = "sendMessage"
           /\ wire[j].msg.name # "digital-options.place-digital-option"
           /\ wire[j].request_id \in ClockFractions

\* ---- C25 ----
\* C25: a 'candles' frame makes the candle projection equal to the batch of
\* the frame, whatever batch the projection held before; the same holds for
\* balance_data and 'balances', profile_msg and 'profile', hisory_positions
\* and 'history-positions'.
C25_ProjectionReplaced ==
    [][LET message == inbound'.body
       IN  /\ message.name = "candles" => candles' = message.msg.candles
           /\ message.name = "balances" => balance_data' = message.msg
           /\ message.name = "profile" => profile_msg' = message
           /\ message.name = "history-positions" => hisory_positions' = message.msg.positions
      ]_vars

\* two batches of candles have been handled one after the other, and the
\* projection holds the second
C25_Witness ==
    /\ inbound # None
    /\ inbound.body.name = "candles"
    /\ inbound.after # None
    /\ inbound.after.name = "candles"
    /\ inbound.after.msg.candles # inbound.body.msg.candles
    /\ candles = inbound.body.msg.candles

\* ---- C27 ----
\* the attributes of the handler that a step changes
ChangedAttributes ==
    (IF server_time' # server_time THEN {"server_time"} ELSE {})
    \cup (IF profile_msg' # profile_msg THEN {"profile_msg"} ELSE {})
    \cup (IF active_balance_id' # active_balance_id THEN {"active_balance_id"} ELSE {})
    \cup (IF balance_data' # balance_data THEN {"balance_data"} ELSE {})
    \cup (IF candles' # candles THEN {"candles"} ELSE {})
    \cup (IF _underlying_assests' # _underlying_assests THEN {"_underlying_assests"} ELSE {})
    \cup (IF hisory_positions' # hisory_positions THEN {"hisory_positions"} ELSE {})
    \cup (IF open_positions' # open_positions THEN {"open_positions"} ELSE {})
    \cup (IF position_info' # position_info THEN {"position_info"} ELSE {})

\* C27: a 'timeSync', 'profile', 'balances', 'candles', 'underlying-list',
\* 'initialization-data' or 'history-positions' frame changes one attribute of
\* the handler and no other.
C27_OneProjectionPerFrame ==
    [][Cardinality(ChangedAttributes) <= 1]_vars

\* ---- C26 ----
\* C26: the closed-position map changes only when a 'position-changed' frame
\* with order ids [o1, o2, ...] is handled, and then it becomes the map it was
\* with the frame's msg stored under o1: the entry of every other key, o2
\* included, is what it was.
C26_FirstOrderIdOnly ==
    [][(position_info' # position_info \/ inbound' # inbound) =>
           LET message == inbound'.body
           IN  /\ position_info' # position_info =>
                      inbound'.json /\ message.name = "position-changed"
               /\ (inbound'.json /\ message.name = "position-changed") =>
                      /\ message.msg.raw_event.order_ids # <<>>
                      /\ position_info' =
                             DictSet(position_info, message.msg.raw_event.order_ids[1],
                                     message.msg)
      ]_vars

\* a frame with order ids [999, 1000] has been handled: there is an entry for
\* 999 and none for 1000
C26_Witness ==
    /\ inbound # None
    /\ inbound.json
    /\ inbound.body.name = "position-changed"
    /\ inbound.body.msg.raw_event.order_ids = <<999, 1000>>
    /\ 999 \in DOMAIN position_info
    /\ position_info[999] = inbound.body.msg
    /\ 1000 \notin DOMAIN position_info

\* ---- C28 ----
\* C28: no step removes a key from the open-position maps or from the
\* closed-position map: routing a frame, a wait that returns or runs out,
\* get_trade_outcome, switch_account, connecting and logging out leave every
\* key that is there.
C28_NoEviction ==
    [][/\ DOMAIN open_positions.digital_options \subseteq DOMAIN open_positions'.digital_options
       /\ DOMAIN open_positions.binary_options \subseteq DOMAIN open_positions'.binary_options
       /\ DOMAIN position_info \subseteq DOMAIN position_info'
      ]_vars

\* a placement has been confirmed and its wait has returned, the position has
\* been closed, and both entries are still there
C28_Witness ==
    /\ \E c \in Callers : pc[c] = "idle" /\ result[c] # NoResult
    /\ calls = MaxCalls
    /\ "77" \in DOMAIN open_positions.digital_options
    /\ 999 \in DOMAIN position_info

AboutToSend(c) ==
    \/ pc[c] \in {"balances_send", "history_send"}
    \/ pc[c] = "candles_send" /\ arg[c] \in UNDERLYING_ASSESTS

\* the socket of the manager is not open: it was never created, or it is
\* closed
NotOpen == websocket = 0 \/ conns[websocket] # "open"

C31_AuthFrameFirst ==
    [][Len(wire') > Len(wire) =>
           LET f == wire'[Len(wire) + 1]
               before == {i \in 1..Len(wire) : wire[i].conn = f.conn}
           IN  IF f.name = "ssid"
               THEN /\ f.msg = ssid
                    /\ before = {}
                    /\ stage = "SocketActive"
               ELSE /\ \E i \in before : wire[i].name = "ssid"
                    /\ stage = "ProfileReceived"
      ]_vars

\* ---- C32 ----
\* C32: every placement that has ended has returned a pair (success, value),
\* also when its parameters were invalid, its asset unknown or its
\* confirmation did not come in time.
C32_AlwaysAPair ==
    \A c \in Callers :
        (pc[c] = "idle" /\ op[c] = "trade") =>
            /\ result[c].kind = "return"
            /\ result[c].val.t = "tuple"

\* ---- C34 ----
\* C34: a call of _execute_digital_option_trade that puts a frame on the wire
\* or starts a confirmation wait has passed the validation: the frame is the
\* one placement frame of the call, its asset is a known asset, its amount is
\* at least 1, its direction is P or C, its expiry is at least 1 and its
\* account id is the active account id, which is set.
C34_ValidatedBeforeSend ==
    [][\A c \in Callers :
           (calls' # calls /\ op'[c] = "trade" /\ pc[c] = "idle"
            /\ (wire' # wire \/ pc'[c] = "order_wait")) =>
               /\ pc'[c] = "order_wait"
               /\ Len(wire') = Len(wire) + 1
               /\ current_account_id # 0
               /\ LET body == wire'[Len(wire')].msg.body
                  IN  /\ body.asset \in UNDERLYING_ASSESTS
                      /\ body.amount \in {ToString(a) : a \in 1..2}
                      /\ body.instrument_id.direction \in {"P", "C"}
                      /\ body.instrument_id.expiry >= 1
                      /\ body.user_balance_id = current_account_id
      ]_vars

\* placements have been refused, the last of them on a connected client, and
\* no placement frame was ever sent
C34_Witness ==
    /\ _connected
    /\ current_account_id # 0
    /\ calls = MaxCalls
    /\ pc["A"] = "idle" /\ op["A"] = "trade" /\ result["A"] = Returned(None)
    /\ \A i \in 1..Len(wire) :
           wire[i].name = "sendMessage" => wire[i].msg.name = "portfolio.position-changed"

\* ---- C33 ----
\* C33: get_trade_outcome returns (True, pnl) when, at a poll before its
\* deadline, the closed-position map holds under its order id an event with
\* status 'closed', and pnl is the pnl of that event; otherwise it returns
\* only at the deadline, and then (False, None). No step of the call changes
\* the closed-position map.
C33_OutcomeFromClosedEvent ==
    [][\A c \in Callers :
           /\ (pc[c] = "outcome_wait" /\ pc'[c] = "idle") =>
                  LET order_data == DictGet(position_info, arg[c])
                  IN  IF /\ elapsed[c] < timeout[c]
                         /\ order_data # None
                         /\ order_data.status = "closed"
                      THEN result'[c] = Returned(Pair(TRUE, order_data.pnl))
                      ELSE /\ elapsed[c] >= timeout[c]
                           /\ result'[c] = Returned(Pair(FALSE, None))
           /\ (pc'[c] # pc[c] /\ "outcome_wait" \in {pc[c], pc'[c]}) =>
                  position_info' = position_info
      ]_vars

\* one call has returned the pnl of the closed event of order 999; another
\* has run into its deadline for order 1000, of which only an open event is
\* recorded
C33_Witness ==
    /\ pc["A"] = "idle" /\ op["A"] = "get_trade_outcome" /\ arg["A"] = 999
    /\ result["A"] = Returned(Pair(TRUE, PyInt(7)))
    /\ pc["B"] = "idle" /\ op["B"] = "get_trade_outcome" /\ arg["B"] = 1000
    /\ result["B"] = Returned(Pair(FALSE, None))
    /\ 1000 \in DOMAIN position_info
    /\ position_info[1000].status = "open"
    /\ position_info[999].status = "closed"

\* ---- C35 ----
\* C35: a position-history query or a candle query that returns a payload
\* returns the payload of the frame that answers its own request, never that
\* of a frame answering a request sent earlier.
C35_NoStaleAnswer ==
    \A c \in Callers :
        (/\ Ended(c, op[c])
         /\ op[c] \in {"get_position_history_by_page", "get_position_history_by_time",
                       "get_candle_history"}
         /\ result[c].kind = "return")
        => ~(result[c].val.of < req[c])

\* ---- C36 ----
\* C36: when the wait of a placement returns an outcome, a confirmation with
\* its request id has been routed since the placement was sent: the outcome is
\* not one that was in the open-position map before, recorded for an earlier
\* placement that used the same request id.
C36_OutcomeOfThisPlacement ==
    [][\A c \in Callers :
           (pc[c] = "order_wait" /\ pc'[c] = "idle" /\ result'[c].val # None) =>
               first[c] # None
      ]_vars

\* ---- C37 ----
\* C37: a placement during whose wait, before the timeout, a confirmation
\* with its request id was routed that carries neither an id nor a message
\* does not end as a timeout (with None).
C37_EmptyConfirmationResolves ==
    \A c \in Callers :
        (/\ Ended(c, "trade")
         /\ first[c] # None
         /\ first[c].msg.id = None
         /\ first[c].msg.message = None)
        => result[c] # Returned(None)

\* ---- C38 ----
\* the frame has no handler: it has no name, or its name is none of the ten
\* names that are routed
NoHandler(message) ==
    \/ "name" \notin DOMAIN message
    \/ message.name \notin {"profile", "candles", "balances", "timeSync", "underlying-list",
                            "initialization-data", "training-balance-reset",
                            "history-positions", "digital-option-placed", "position-changed"}

\* C38: when _on_message has handled a frame that parses and has no handler,
\* every attribute of the handler (the projections and both outcome maps) and
\* the account id and type are what they were, no exception has left
\* _on_message, and the connection is marked active.
C38_UnroutedFrameIsNoOp ==
    [][\A k \in 1..MaxConns :
           (/\ routing[k] # None /\ routing'[k] = None
            /\ routing[k].json /\ NoHandler(routing[k].body)) =>
               /\ UNCHANGED <<handlerVars, accountVars>>
               /\ inbound'.body = routing[k].body
               /\ ~inbound'.raised
               /\ ws_is_active'
      ]_vars

\* a frame without a name was the first frame of the socket: nothing has been
\* stored, and the connection is active
C38_Witness ==
    /\ inbound # None
    /\ inbound.json
    /\ "name" \notin DOMAIN inbound.body
    /\ ~inbound.raised
    /\ ws_is_active
    /\ stage = "SocketActive"
    /\ server_time = None
    /\ profile_msg = None

\* ---- C39 ----
\* C39: the step of switch_account that follows the fetch of the balances
\* leaves the client with the id of an account; it changes the account type
\* only together with the id, to the account of that type; and when it leaves
\* the type as it was it leaves the id as it was and sends no frame.
C39_SwitchNeedsAccount ==
    [][\A c \in Callers :
           (pc[c] = "switch_subscription" /\ pc'[c] # "switch_subscription") =>
               /\ current_account_id' \in {Balances[i].id : i \in 1..Len(Balances)}
               /\ current_account_type' # current_account_type =>
                      current_account_id' = FirstOfType(Balances, TypeCode(current_account_type'))
               /\ current_account_type' = current_account_type =>
                      current_account_id' = current_account_id /\ wire' = wire
      ]_vars

====
